---------------------------- MODULE Spec2Model ----------------------------
(***************************************************************************)
(* Model of the openrgb-rs client: the typed wire codec (src/data), the    *)
(* packet framing layer (src/protocol.rs) and the client operations with   *)
(* their shared, mutex-guarded connection (src/client.rs).                 *)
(*                                                                         *)
(* Bytes are integers 0..255.  The connection is two byte streams: the     *)
(* bytes the client writes and the bytes the server sends.  Every await    *)
(* on the connection is one step of the task that performs it.             *)
(***************************************************************************)
EXTENDS Integers, Sequences, FiniteSets, TLC

VARIABLES
    debug_assertions,   \* build variant: TRUE = debug build, FALSE = release build
    client,             \* the OpenRGB value: NoClient, or its protocol field
    guard,              \* task holding the MutexGuard of client.stream, or Unlocked
    pc,                 \* pc[t]: position of task t inside its operation
    req,                \* req[t]: the operation task t is performing (or performed last)
    out,                \* out[t]: bytes task t's current operation wrote to the connection
    got,                \* got[t]: bytes task t's current operation consumed from the connection
    result,             \* result[t]: what task t's last operation returned
    inbound,            \* bytes sent by the server and not yet consumed
    trace,              \* accesses to the connection by the operations in progress:
                        \* process and direction, runs collapsed
    failed,             \* processes whose operation in progress met an I/O error
    codec               \* a value on its way through the codec alone, apart from any client

vars == <<debug_assertions, client, guard, pc, req, out, got, result,
          inbound, trace, failed, codec>>

----------------------------------------------------------------------------
(* Bounds of the model. *)

NumTasks == 2           \* tasks sharing the client
Window == 4             \* unread bytes below which the server sends on
MaxPartial == 1         \* bytes a failing write puts on the wire before it fails
MaxLen == 2             \* elements of a sequence handed to the codec alone

----------------------------------------------------------------------------
(* Program constants. *)

DEFAULT_PROTOCOL == 3
MAGIC == <<79, 82, 71, 66>>     \* b"ORGB"

RequestControllerCount == 0
RequestControllerData == 1
RequestProtocolVersion == 40
SetClientName == 50
DeviceListUpdated == 100
RequestProfileList == 150
RequestSaveProfile == 151
RequestLoadProfile == 152
RequestDeleteProfile == 153
RGBControllerResizeZone == 1000
RGBControllerUpdateLeds == 1050
RGBControllerUpdateZoneLeds == 1051
RGBControllerUpdateSingleLed == 1052
RGBControllerSetCustomMode == 1100
RGBControllerUpdateMode == 1101
RGBControllerSaveMode == 1102

PacketId == {RequestControllerCount, RequestControllerData, RequestProtocolVersion,
             SetClientName, DeviceListUpdated, RequestProfileList, RequestSaveProfile,
             RequestLoadProfile, RequestDeleteProfile, RGBControllerResizeZone,
             RGBControllerUpdateLeds, RGBControllerUpdateZoneLeds,
             RGBControllerUpdateSingleLed, RGBControllerSetCustomMode,
             RGBControllerUpdateMode, RGBControllerSaveMode}

\* ModeFlag bits
HasSpeed == 1
HasDirectionLR == 2
HasDirectionUD == 4
HasDirectionHV == 8
HasBrightness == 16

\* Direction::default() and ColorMode::default()
DirectionLeft == 0
ColorModeNone == 0

----------------------------------------------------------------------------
(* Errors and results. *)

ProtocolError(what, args) == [type |-> "ProtocolError", what |-> what, args |-> args]

CommunicationError == [type |-> "CommunicationError"]

UnsupportedOperation(operation, current, min) ==
    [type |-> "UnsupportedOperation", operation |-> operation,
     current_protocol_version |-> current, min_protocol_version |-> min]

Ok(v) == [ok |-> TRUE, val |-> v]
Err(e) == [ok |-> FALSE, err |-> e]

NoResult == [none |-> TRUE]

----------------------------------------------------------------------------
(* Values handed to the codec.  Each carries its Rust type.                *)

Unit == [ty |-> "unit"]
U8(n) == [ty |-> "u8", u8 |-> n]
U16(n) == [ty |-> "u16", u16 |-> n]
U32(n) == [ty |-> "u32", u32 |-> n]
I32(n) == [ty |-> "i32", i32 |-> n]
USize(n) == [ty |-> "usize", usize |-> n]
Str(s) == [ty |-> "String", str |-> s]
RawString(s) == [ty |-> "RawString", raw |-> s]
Color(r, g, b) == [ty |-> "Color", r |-> r, g |-> g, b |-> b]
Vec(es) == [ty |-> "Vec", elems |-> es]
\* vec![elem; n], the Vec of n copies of elem
VecOf(elem, n) == [ty |-> "vec!", elem |-> elem, n |-> n]
StrOf(byte, n) == [ty |-> "str!", byte |-> byte, n |-> n]   \* a String of n bytes, all alike
Tuple(es) == [ty |-> "tuple", items |-> es]

Some(v) == <<v>>
None == <<>>
\* the default whatever the option holds
unwrap_or_default_dropped(o, d) == d

unwrap_or_default(o, d) == IF o = None THEN d ELSE o[1]

----------------------------------------------------------------------------
(* Little-endian integers.  Model values stay below 2^31.                  *)

LE16(n) == <<n % 256, (n \div 256) % 256>>

LE32(n) == <<n % 256, (n \div 256) % 256, (n \div 65536) % 256, (n \div 16777216) % 256>>

\* two's complement of a negative i32, byte by byte
I32LE(n) == IF n >= 0 THEN LE32(n) ELSE [i \in 1..4 |-> 255 - LE32(-(n + 1))[i]]

RECURSIVE Concat(_)
Concat(ss) == IF ss = <<>> THEN <<>> ELSE Head(ss) \o Concat(Tail(ss))

\* the sum of ns, by halves
RECURSIVE Sum(_)
Sum(ns) ==
    IF ns = <<>> THEN 0
    ELSE IF Len(ns) = 1 THEN ns[1]
    ELSE LET h == Len(ns) \div 2
         IN Sum(SubSeq(ns, 1, h)) + Sum(SubSeq(ns, h + 1, Len(ns)))

Min(a, b) == IF a < b THEN a ELSE b

----------------------------------------------------------------------------
(* OpenRGBWritable: size and write of every writable type.  A write yields *)
(* the bytes it put on the stream and the error that stopped it, if any.   *)

Written(bytes) == [bytes |-> bytes, err |-> None]
WriteFailed(bytes, e) == [bytes |-> bytes, err |-> Some(e)]

\* a; b?  : b runs only when a succeeded, after a's bytes
AndThen(a, b) == IF a.err # None THEN a ELSE [bytes |-> a.bytes \o b.bytes, err |-> b.err]

RECURSIVE size(_, _)
RECURSIVE write_value(_, _)
RECURSIVE write_each(_, _)

write_each(vs, protocol) ==
    IF vs = <<>> THEN Written(<<>>)
    ELSE AndThen(write_value(Head(vs), protocol), write_each(Tail(vs), protocol))

unit_size == 0
unit_write == Written(<<>>)

u8_size == 1
u8_write(n) == Written(<<n>>)

u16_size == 2
u16_write(n) == Written(LE16(n))

u32_size == 4
u32_write(n) == Written(LE32(n))

i32_size == 4
i32_write(n) == Written(I32LE(n))

usize_size == 4
usize_write(n) ==
    IF n \div 65536 >= 65536
    THEN WriteFailed(<<>>, ProtocolError("Data size is too large to encode", <<n>>))
    ELSE u32_write(n)

enum_size == 4
enum_write(n) == u32_write(n)

RawString_size(s) == Len(s) + 1
\* a raw string written without its zero byte
RawString_write_unterminated(s) == Written(s)

RawString_write(s) == Written(s \o <<0>>)

String_size(s) == Len(s) + 1 + 2
String_write(s) == AndThen(u16_write((Len(s) + 1) % 65536), RawString_write(s))

Color_size == 4 * 1
Color_write(c) == Written(<<c.r, c.g, c.b, 0>>)

Vec_size(es, protocol) == 2 + Sum([i \in 1..Len(es) |-> size(es[i], protocol)])
\* a write that puts the largest count on the stream before it fails
Vec_write_counting(es, protocol) ==
    IF Len(es) > 65535
    THEN WriteFailed(LE16(65535), ProtocolError("Vec is too large to encode", <<Len(es)>>))
    ELSE AndThen(u16_write(Len(es)), write_each(es, protocol))

Vec_write(es, protocol) ==
    IF Len(es) > 65535
    THEN WriteFailed(<<>>, ProtocolError("Vec is too large to encode", <<Len(es)>>))
    ELSE AndThen(u16_write(Len(es)), write_each(es, protocol))

tuple_size(es, protocol) == Sum([i \in 1..Len(es) |-> size(es[i], protocol)])
\* a tuple written last component first
tuple_write_reversed(es, protocol) ==
    write_each([i \in 1..Len(es) |-> es[Len(es) + 1 - i]], protocol)

tuple_write(es, protocol) == write_each(es, protocol)

\* a size that leaves the brightness slots out at every version
Mode_size_without_brightness(m, protocol) ==
    String_size(m.name) + i32_size + enum_size + u32_size + u32_size
    + u32_size + u32_size + u32_size
    + enum_size + enum_size
    + Vec_size(m.colors, protocol)

Mode_size(m, protocol) ==
    String_size(m.name) + i32_size + enum_size + u32_size + u32_size
    + (IF protocol >= 3 THEN u32_size + u32_size ELSE 0)
    + u32_size + u32_size + u32_size
    + (IF protocol >= 3 THEN u32_size ELSE 0)
    + enum_size + enum_size
    + Vec_size(m.colors, protocol)

\* a write that leaves out the slots of the fields the flags do not announce
Mode_write_by_flags(m, protocol) ==
    write_each(
        << Str(m.name), I32(m.value), U32(m.flags) >>
        \o (IF (m.flags \div HasSpeed) % 2 = 1
            THEN << U32(unwrap_or_default(m.speed_min, 0)),
                    U32(unwrap_or_default(m.speed_max, 0)) >>
            ELSE <<>>)
        \o (IF protocol >= 3 /\ (m.flags \div HasBrightness) % 2 = 1
            THEN << U32(unwrap_or_default(m.brightness_min, 0)),
                    U32(unwrap_or_default(m.brightness_max, 0)) >>
            ELSE <<>>)
        \o << U32(unwrap_or_default(m.colors_min, 0)),
              U32(unwrap_or_default(m.colors_max, 0)) >>
        \o (IF (m.flags \div HasSpeed) % 2 = 1
            THEN << U32(unwrap_or_default(m.speed, 0)) >>
            ELSE <<>>)
        \o (IF protocol >= 3 /\ (m.flags \div HasBrightness) % 2 = 1
            THEN << U32(unwrap_or_default(m.brightness, 0)) >>
            ELSE <<>>)
        \o << U32(unwrap_or_default(m.direction, DirectionLeft)),
              U32(unwrap_or_default(m.color_mode, ColorModeNone)),
              Vec(m.colors) >>,
        protocol)

Mode_write(m, protocol) ==
    write_each(
        << Str(m.name), I32(m.value), U32(m.flags),
           U32(unwrap_or_default(m.speed_min, 0)),
           U32(unwrap_or_default(m.speed_max, 0)) >>
        \o (IF protocol >= 3
            THEN << U32(unwrap_or_default(m.brightness_min, 0)),
                    U32(unwrap_or_default(m.brightness_max, 0)) >>
            ELSE <<>>)
        \o << U32(unwrap_or_default(m.colors_min, 0)),
              U32(unwrap_or_default(m.colors_max, 0)),
              U32(unwrap_or_default(m.speed, 0)) >>
        \o (IF protocol >= 3
            THEN << U32(unwrap_or_default(m.brightness, 0)) >>
            ELSE <<>>)
        \o << U32(unwrap_or_default(m.direction, DirectionLeft)),
              U32(unwrap_or_default(m.color_mode, ColorModeNone)),
              Vec(m.colors) >>,
        protocol)

size(v, protocol) ==
    CASE v.ty = "unit" -> unit_size
      [] v.ty = "u8" -> u8_size
      [] v.ty = "u16" -> u16_size
      [] v.ty = "u32" -> u32_size
      [] v.ty = "i32" -> i32_size
      [] v.ty = "usize" -> usize_size
      [] v.ty = "String" -> String_size(v.str)
      [] v.ty = "RawString" -> RawString_size(v.raw)
      [] v.ty = "Color" -> Color_size
      [] v.ty = "Vec" -> Vec_size(v.elems, protocol)
      [] v.ty = "vec!" -> 2 + v.n * size(v.elem, protocol)   \* Vec_size of n equal elements
      [] v.ty = "str!" -> String_size([i \in 1..v.n |-> v.byte])
      [] v.ty = "tuple" -> tuple_size(v.items, protocol)
      [] v.ty = "Mode" -> Mode_size(v, protocol)
      [] v.ty = "ModeFlags" -> u32_size
      [] v.ty \in {"PacketId", "DeviceType", "ZoneType", "ColorMode", "Direction"} -> enum_size

write_value(v, protocol) ==
    CASE v.ty = "unit" -> unit_write
      [] v.ty = "u8" -> u8_write(v.u8)
      [] v.ty = "u16" -> u16_write(v.u16)
      [] v.ty = "u32" -> u32_write(v.u32)
      [] v.ty = "i32" -> i32_write(v.i32)
      [] v.ty = "usize" -> usize_write(v.usize)
      [] v.ty = "String" -> String_write(v.str)
      [] v.ty = "RawString" -> RawString_write(v.raw)
      [] v.ty = "Color" -> Color_write(v)
      [] v.ty = "Vec" -> Vec_write(v.elems, protocol)
      [] v.ty = "vec!" -> Vec_write([i \in 1..v.n |-> v.elem], protocol)
      [] v.ty = "str!" -> String_write([i \in 1..v.n |-> v.byte])
      [] v.ty = "tuple" -> tuple_write(v.items, protocol)
      [] v.ty = "Mode" -> Mode_write(v, protocol)
      [] v.ty = "ModeFlags" -> u32_write(v.bits)
      [] v.ty \in {"PacketId", "DeviceType", "ZoneType", "ColorMode", "Direction"} -> enum_write(v.id)

----------------------------------------------------------------------------
(* OpenRGBWritableStream: the header and the packet.                       *)

\* the four writes of write_header, in order
\* a header with the packet id ahead of the device id
write_header_swapped(protocol, device_id, packet_id, data_len) ==
    << Written(MAGIC),
       enum_write(packet_id),
       u32_write(device_id),
       usize_write(data_len) >>

write_header(protocol, device_id, packet_id, data_len) ==
    << Written(MAGIC),
       u32_write(device_id),
       enum_write(packet_id),
       usize_write(data_len) >>

RECURSIVE all_of(_)
all_of(ws) == IF ws = <<>> THEN Written(<<>>) ELSE AndThen(Head(ws), all_of(Tail(ws)))

\* the buffer the debug build fills before its single write_all
write_packet_buf(protocol, device_id, packet_id, data) ==
    AndThen(all_of(write_header(protocol, device_id, packet_id, size(data, protocol))),
            write_value(data, protocol))

----------------------------------------------------------------------------
(* OpenRGBReadable: read of every readable type from the bytes at hand.    *)
(* A read yields the value and the number of bytes it consumed, or the     *)
(* error that stopped it and the bytes consumed up to there, or "more"     *)
(* when the bytes at hand end before the value does (the read is pending). *)

ReadOk(v, n) == [st |-> "ok", val |-> v, n |-> n]
ReadFailed(e, n) == [st |-> "err", err |-> e, n |-> n]
ReadPending == [st |-> "more"]

Drop(bs, n) == SubSeq(bs, n + 1, Len(bs))
Take(bs, n) == SubSeq(bs, 1, n)

\* type descriptors
T(name) == [t |-> name]
TVec(elem) == [t |-> "Vec", of |-> elem]
TTuple(elems) == [t |-> "tuple", of |-> elems]

HasBit(flags, bit) == (flags \div bit) % 2 = 1

\* a test that finds HasDirection in every flag set
contains_HasDirection_always(flags) == TRUE

\* a test that finds HasDirection where one of its bits is
contains_HasDirection_any(flags) ==
    HasBit(flags, HasDirectionLR) \/ HasBit(flags, HasDirectionUD) \/ HasBit(flags, HasDirectionHV)

\* FlagSet::contains(HasDirection), HasDirection = LR | UD | HV
contains_HasDirection(flags) ==
    HasBit(flags, HasDirectionLR) /\ HasBit(flags, HasDirectionUD) /\ HasBit(flags, HasDirectionHV)

IsCont(b) == b >= 128 /\ b <= 191

RECURSIVE from_utf8_ok(_)
from_utf8_ok(bs) ==
    IF bs = <<>> THEN TRUE
    ELSE LET b == bs[1] IN
         CASE b < 128 -> from_utf8_ok(Drop(bs, 1))
           [] b >= 194 /\ b <= 223 ->
                Len(bs) >= 2 /\ IsCont(bs[2]) /\ from_utf8_ok(Drop(bs, 2))
           [] b >= 224 /\ b <= 239 ->
                /\ Len(bs) >= 3 /\ IsCont(bs[2]) /\ IsCont(bs[3])
                /\ (b = 224 => bs[2] >= 160)
                /\ (b = 237 => bs[2] <= 159)
                /\ from_utf8_ok(Drop(bs, 3))
           [] b >= 240 /\ b <= 244 ->
                /\ Len(bs) >= 4 /\ IsCont(bs[2]) /\ IsCont(bs[3]) /\ IsCont(bs[4])
                /\ (b = 240 => bs[2] >= 144)
                /\ (b = 244 => bs[2] <= 143)
                /\ from_utf8_ok(Drop(bs, 4))
           [] OTHER -> FALSE

RECURSIVE read_value(_, _, _)
RECURSIVE read_each(_, _, _)
RECURSIVE read_n(_, _, _, _)

\* read the types of tys one after the other; stop at the first that does not succeed
read_each(tys, bs, protocol) ==
    IF tys = <<>> THEN ReadOk(<<>>, 0)
    ELSE LET r == read_value(Head(tys), bs, protocol) IN
         IF r.st = "more" THEN ReadPending
         ELSE IF r.st = "err" THEN r
         ELSE LET rs == read_each(Tail(tys), Drop(bs, r.n), protocol) IN
              IF rs.st = "more" THEN ReadPending
              ELSE IF rs.st = "err" THEN ReadFailed(rs.err, r.n + rs.n)
              ELSE ReadOk(<<r.val>> \o rs.val, r.n + rs.n)

\* read count values of type ty
read_n(ty, count, bs, protocol) == read_each([i \in 1..count |-> ty], bs, protocol)

unit_read == ReadOk(Unit, 0)

u8_read(bs) == IF Len(bs) < 1 THEN ReadPending ELSE ReadOk(U8(bs[1]), 1)

u16_read(bs) == IF Len(bs) < 2 THEN ReadPending ELSE ReadOk(U16(bs[1] + 256 * bs[2]), 2)

u32_read(bs) ==
    IF Len(bs) < 4 THEN ReadPending
    ELSE ReadOk(U32(bs[1] + 256 * bs[2] + 65536 * bs[3] + 16777216 * bs[4]), 4)

i32_read(bs) ==
    IF Len(bs) < 4 THEN ReadPending
    ELSE IF bs[4] < 128
         THEN ReadOk(I32(bs[1] + 256 * bs[2] + 65536 * bs[3] + 16777216 * bs[4]), 4)
         ELSE ReadOk(I32(-1 - ((255 - bs[1]) + 256 * (255 - bs[2]) + 65536 * (255 - bs[3])
                               + 16777216 * (255 - bs[4]))), 4)

usize_read(bs) ==
    LET r == u32_read(bs) IN IF r.st = "ok" THEN ReadOk(USize(r.val.u32), 4) ELSE r

String_read(bs) ==
    LET l == u16_read(bs) IN
    IF l.st # "ok" THEN l
    ELSE IF Len(bs) < 2 + l.val.u16 THEN ReadPending
    ELSE LET buf == SubSeq(bs, 3, 2 + l.val.u16)
             str == IF buf = <<>> THEN buf ELSE Take(buf, Len(buf) - 1)
         IN IF from_utf8_ok(str) THEN ReadOk(Str(str), 2 + l.val.u16)
            ELSE ReadFailed(ProtocolError("Failed decoding string as UTF-8", str), 2 + l.val.u16)

Color_read(bs) ==
    IF Len(bs) < 4 THEN ReadPending ELSE ReadOk(Color(bs[1], bs[2], bs[3]), 4)

\* enumerations that reject an unknown ordinal
enum_read(name, what, ordinals, bs) ==
    LET r == u32_read(bs) IN
    IF r.st # "ok" THEN r
    ELSE IF r.val.u32 \in ordinals THEN ReadOk([ty |-> name, id |-> r.val.u32], 4)
    ELSE ReadFailed(ProtocolError(what, <<r.val.u32>>), 4)

PacketId_read(bs) == enum_read("PacketId", "unknown packed ID", PacketId, bs)
ZoneType_read(bs) == enum_read("ZoneType", "unknown zone type", 0..2, bs)
\* a read that takes 4 for a color mode too
ColorMode_read_lenient(bs) == enum_read("ColorMode", "unknown color mode", 0..4, bs)

ColorMode_read(bs) == enum_read("ColorMode", "unknown color mode", 0..3, bs)
Direction_read(bs) == enum_read("Direction", "unknown direction", 0..5, bs)

DeviceTypeUnknown == 14
\* a read that refuses the device types it does not know
DeviceType_read_strict(bs) == enum_read("DeviceType", "unknown device type", 0..14, bs)

DeviceType_read(bs) ==
    LET r == u32_read(bs) IN
    IF r.st # "ok" THEN r
    ELSE ReadOk([ty |-> "DeviceType",
                 id |-> IF r.val.u32 \in 0..14 THEN r.val.u32 ELSE DeviceTypeUnknown], 4)

\* a read that drops the bits it does not know
ModeFlags_read_truncating(bs) ==
    LET r == u32_read(bs) IN
    IF r.st # "ok" THEN r
    ELSE ReadOk([ty |-> "ModeFlags", bits |-> r.val.u32 % 1024], 4)

ModeFlags_read(bs) ==
    LET r == u32_read(bs) IN
    IF r.st # "ok" THEN r
    ELSE IF r.val.u32 < 1024 THEN ReadOk([ty |-> "ModeFlags", bits |-> r.val.u32], 4)
    ELSE ReadFailed(ProtocolError("Received invalid mode flag set", <<r.val.u32>>), 4)

\* a read that takes one element more than the count
Vec_read_one_more(elem, bs, protocol) ==
    LET l == u16_read(bs) IN
    IF l.st # "ok" THEN l
    ELSE LET es == read_n(elem, l.val.u16 + 1, Drop(bs, 2), protocol) IN
         IF es.st = "more" THEN ReadPending
         ELSE IF es.st = "err" THEN ReadFailed(es.err, 2 + es.n)
         ELSE ReadOk(Vec(es.val), 2 + es.n)

Vec_read(elem, bs, protocol) ==
    LET l == u16_read(bs) IN
    IF l.st # "ok" THEN l
    ELSE LET es == read_n(elem, l.val.u16, Drop(bs, 2), protocol) IN
         IF es.st = "more" THEN ReadPending
         ELSE IF es.st = "err" THEN ReadFailed(es.err, 2 + es.n)
         ELSE ReadOk(Vec(es.val), 2 + es.n)

tuple_read(elems, bs, protocol) ==
    LET es == read_each(elems, bs, protocol) IN
    IF es.st = "ok" THEN ReadOk(Tuple(es.val), es.n) ELSE es

\* a read that takes the brightness slots from protocol 2 on
reads_brightness_v2(protocol) == protocol >= 2

\* whether Mode::read takes brightness_min, brightness_max and brightness off the stream
reads_brightness(protocol) == protocol >= 3

\* the slots of a Mode on the wire, in order
Mode_slots(protocol) ==
    << T("String"), T("i32"), T("ModeFlags"), T("u32"), T("u32") >>
    \o (IF reads_brightness(protocol) THEN << T("u32"), T("u32") >> ELSE <<>>)
    \o << T("u32"), T("u32"), T("u32") >>
    \o (IF reads_brightness(protocol) THEN << T("u32") >> ELSE <<>>)
    \o << T("u32"), T("ColorMode"), TVec(T("Color")) >>

Mode_read(bs, protocol) ==
    LET r == read_each(Mode_slots(protocol), bs, protocol) IN
    IF r.st # "ok" THEN r
    ELSE LET v == r.val
             k == IF reads_brightness(protocol) THEN 2 ELSE 0  \* brightness_min, brightness_max read
             j == IF reads_brightness(protocol) THEN 3 ELSE 0  \* and brightness
             flags == v[3].bits
             speed_min == v[4].u32
             speed_max == v[5].u32
             brightness_min == IF reads_brightness(protocol) THEN Some(v[6].u32) ELSE None
             brightness_max == IF reads_brightness(protocol) THEN Some(v[7].u32) ELSE None
             colors_min == v[6 + k].u32
             colors_max == v[7 + k].u32
             speed == v[8 + k].u32
             brightness == IF reads_brightness(protocol) THEN Some(v[11].u32) ELSE None
             direction == v[9 + j].u32
             color_mode == v[10 + j].id
             colors == v[11 + j].elems
         IN IF contains_HasDirection(flags) /\ direction \notin 0..5
            THEN ReadFailed(ProtocolError("unknown direction", <<direction>>), r.n)
            ELSE ReadOk(
                [ty |-> "Mode",
                 name |-> v[1].str,
                 value |-> v[2].i32,
                 flags |-> flags,
                 speed_min |-> IF HasBit(flags, HasSpeed) THEN Some(speed_min) ELSE None,
                 speed_max |-> IF HasBit(flags, HasSpeed) THEN Some(speed_max) ELSE None,
                 brightness_min |-> IF HasBit(flags, HasBrightness) THEN brightness_min ELSE None,
                 brightness_max |-> IF HasBit(flags, HasBrightness) THEN brightness_max ELSE None,
                 colors_min |-> IF colors = <<>> THEN None ELSE Some(colors_min),
                 colors_max |-> IF colors = <<>> THEN None ELSE Some(colors_max),
                 speed |-> IF HasBit(flags, HasSpeed) THEN Some(speed) ELSE None,
                 brightness |-> IF HasBit(flags, HasBrightness) THEN brightness ELSE None,
                 direction |-> IF contains_HasDirection(flags) THEN Some(direction) ELSE None,
                 color_mode |-> Some(color_mode),
                 colors |-> colors], r.n)

\* Array2D::from_row_major
\* a matrix filled down the columns
from_column_major(data, height, width) ==
    [rows |-> height, columns |-> width,
     cells |-> [r \in 1..height |-> [c \in 1..width |-> data[(c - 1) * height + r].u32]]]

from_row_major(data, height, width) ==
    [rows |-> height, columns |-> width,
     cells |-> [r \in 1..height |-> [c \in 1..width |-> data[(r - 1) * width + c].u32]]]

Zone_read(bs, protocol) ==
    LET h == read_each(<< T("String"), T("ZoneType"), T("u32"), T("u32"), T("u32"), T("u16") >>,
                       bs, protocol) IN
    IF h.st # "ok" THEN h
    ELSE LET zone(matrix) ==
                 [ty |-> "Zone", name |-> h.val[1].str, type |-> h.val[2].id,
                  leds_min |-> h.val[3].u32, leds_max |-> h.val[4].u32,
                  leds_count |-> h.val[5].u32, matrix |-> matrix]
             matrix_len == h.val[6].u16
         IN IF matrix_len = 0 THEN ReadOk(zone(None), h.n)
            ELSE LET d == read_each(<< T("u32"), T("u32") >>, Drop(bs, h.n), protocol) IN
                 IF d.st = "more" THEN ReadPending
                 ELSE IF d.st = "err" THEN ReadFailed(d.err, h.n + d.n)
                 ELSE LET matrix_height == d.val[1].u32
                          matrix_width == d.val[2].u32
                          m == read_n(T("u32"), matrix_height * matrix_width,
                                      Drop(bs, h.n + d.n), protocol)
                      IN IF m.st = "more" THEN ReadPending
                         ELSE IF m.st = "err" THEN ReadFailed(m.err, h.n + d.n + m.n)
                         ELSE ReadOk(zone(Some(from_row_major(m.val, matrix_height, matrix_width))),
                                     h.n + d.n + m.n)

LED_read(bs, protocol) ==
    LET r == read_each(<< T("String"), T("u32") >>, bs, protocol) IN
    IF r.st # "ok" THEN r
    ELSE ReadOk([ty |-> "LED", name |-> r.val[1].str, value |-> r.val[2].u32], r.n)

\* a read that takes five strings where the controller has six
Controller_read_five_strings(bs, protocol) ==
    LET h == read_each(<< T("u32"), T("DeviceType"), T("String"), T("String"), T("String"),
                          T("String"), T("String"), T("u16"), T("i32") >>,
                       bs, protocol) IN
    IF h.st # "ok" THEN h
    ELSE LET num_modes == h.val[8].u16
             modes == read_n(T("Mode"), num_modes, Drop(bs, h.n), protocol)
         IN IF modes.st = "more" THEN ReadPending
            ELSE IF modes.st = "err" THEN ReadFailed(modes.err, h.n + modes.n)
            ELSE LET t == read_each(<< TVec(T("Zone")), TVec(T("LED")), TVec(T("Color")) >>,
                                    Drop(bs, h.n + modes.n), protocol) IN
                 IF t.st = "more" THEN ReadPending
                 ELSE IF t.st = "err" THEN ReadFailed(t.err, h.n + modes.n + t.n)
                 ELSE ReadOk(
                     [ty |-> "Controller",
                      type |-> h.val[2].id,
                      name |-> h.val[3].str,
                      vendor |-> h.val[4].str,
                      description |-> h.val[5].str,
                      version |-> h.val[6].str,
                      serial |-> h.val[7].str,
                      location |-> h.val[7].str,
                      active_mode |-> h.val[9].i32,
                      modes |-> modes.val,
                      zones |-> t.val[1].elems,
                      leds |-> t.val[2].elems,
                      colors |-> t.val[3].elems], h.n + modes.n + t.n)

Controller_read(bs, protocol) ==
    LET h == read_each(<< T("u32"), T("DeviceType"), T("String"), T("String"), T("String"),
                          T("String"), T("String"), T("String"), T("u16"), T("i32") >>,
                       bs, protocol) IN
    IF h.st # "ok" THEN h
    ELSE LET num_modes == h.val[9].u16
             modes == read_n(T("Mode"), num_modes, Drop(bs, h.n), protocol)
         IN IF modes.st = "more" THEN ReadPending
            ELSE IF modes.st = "err" THEN ReadFailed(modes.err, h.n + modes.n)
            ELSE LET t == read_each(<< TVec(T("Zone")), TVec(T("LED")), TVec(T("Color")) >>,
                                    Drop(bs, h.n + modes.n), protocol) IN
                 IF t.st = "more" THEN ReadPending
                 ELSE IF t.st = "err" THEN ReadFailed(t.err, h.n + modes.n + t.n)
                 ELSE ReadOk(
                     [ty |-> "Controller",
                      type |-> h.val[2].id,
                      name |-> h.val[3].str,
                      vendor |-> h.val[4].str,
                      description |-> h.val[5].str,
                      version |-> h.val[6].str,
                      serial |-> h.val[7].str,
                      location |-> h.val[8].str,
                      active_mode |-> h.val[10].i32,
                      modes |-> modes.val,
                      zones |-> t.val[1].elems,
                      leds |-> t.val[2].elems,
                      colors |-> t.val[3].elems], h.n + modes.n + t.n)

read_value(ty, bs, protocol) ==
    CASE ty.t = "unit" -> unit_read
      [] ty.t = "u8" -> u8_read(bs)
      [] ty.t = "u16" -> u16_read(bs)
      [] ty.t = "u32" -> u32_read(bs)
      [] ty.t = "i32" -> i32_read(bs)
      [] ty.t = "usize" -> usize_read(bs)
      [] ty.t = "String" -> String_read(bs)
      [] ty.t = "Color" -> Color_read(bs)
      [] ty.t = "PacketId" -> PacketId_read(bs)
      [] ty.t = "ZoneType" -> ZoneType_read(bs)
      [] ty.t = "ColorMode" -> ColorMode_read(bs)
      [] ty.t = "Direction" -> Direction_read(bs)
      [] ty.t = "DeviceType" -> DeviceType_read(bs)
      [] ty.t = "ModeFlags" -> ModeFlags_read(bs)
      [] ty.t = "Vec" -> Vec_read(ty.of, bs, protocol)
      [] ty.t = "tuple" -> tuple_read(ty.of, bs, protocol)
      [] ty.t = "Mode" -> Mode_read(bs, protocol)
      [] ty.t = "Zone" -> Zone_read(bs, protocol)
      [] ty.t = "LED" -> LED_read(bs, protocol)
      [] ty.t = "Controller" -> Controller_read(bs, protocol)

----------------------------------------------------------------------------
(* The client operations: what each hands to write_packet or request.      *)

NoClient == [ok |-> FALSE]
OpenRGB(protocol) == [ok |-> TRUE, protocol |-> protocol]

get_protocol_version(self) == self.protocol

NoReply == T("none")

\* a profile gate that lets version 1 through
check_protocol_version_profile_control_v1(self) ==
    IF self.protocol < 1
    THEN Err(UnsupportedOperation("Profile control", self.protocol, 2))
    ELSE Ok(Unit)

check_protocol_version_profile_control(self) ==
    IF self.protocol < 2
    THEN Err(UnsupportedOperation("Profile control", self.protocol, 2))
    ELSE Ok(Unit)

check_protocol_version_saving_modes(self) ==
    IF self.protocol < 3
    THEN Err(UnsupportedOperation("Saving modes", self.protocol, 3))
    ELSE Ok(Unit)

Unchecked == Ok(Unit)

Operation(op, check, protocol, device_id, packet_id, data, reply) ==
    [op |-> op, check |-> check, protocol |-> protocol, device_id |-> device_id,
     packet_id |-> packet_id, data |-> data, reply |-> reply]

\* a handshake that announces version 0
new_announcing_zero ==
    Operation("new", Unchecked, DEFAULT_PROTOCOL, 0, RequestProtocolVersion,
              U32(0), T("u32"))

\* the exchange OpenRGB::new performs on the stream it was given
new ==
    Operation("new", Unchecked, DEFAULT_PROTOCOL, 0, RequestProtocolVersion,
              U32(DEFAULT_PROTOCOL), T("u32"))

set_name(self, name) ==
    Operation("set_name", Unchecked, self.protocol, 0, SetClientName,
              RawString(name), NoReply)

get_controller_count(self) ==
    Operation("get_controller_count", Unchecked, self.protocol, 0, RequestControllerCount,
              Unit, T("u32"))

get_controller(self, controller_id) ==
    Operation("get_controller", Unchecked, self.protocol, controller_id, RequestControllerData,
              U32(self.protocol), T("Controller"))

resize_zone(self, zone_id, new_size) ==
    Operation("resize_zone", Unchecked, self.protocol, 0, RGBControllerResizeZone,
              Tuple(<< I32(zone_id), I32(new_size) >>), NoReply)

update_led(self, controller_id, led_id, color) ==
    Operation("update_led", Unchecked, self.protocol, controller_id, RGBControllerUpdateSingleLed,
              Tuple(<< I32(led_id), color >>), NoReply)

update_leds(self, controller_id, colors) ==
    Operation("update_leds", Unchecked, self.protocol, controller_id, RGBControllerUpdateLeds,
              Tuple(<< USize(size(colors, self.protocol)), colors >>), NoReply)

update_zone_leds(self, controller_id, zone_id, colors) ==
    Operation("update_zone_leds", Unchecked, self.protocol, controller_id,
              RGBControllerUpdateZoneLeds,
              Tuple(<< USize(size(U32(zone_id), self.protocol) + size(Vec(colors), self.protocol)),
                       U32(zone_id), Vec(colors) >>), NoReply)

get_profiles(self) ==
    Operation("get_profiles", check_protocol_version_profile_control(self), self.protocol, 0,
              RequestProfileList, Unit, TTuple(<< T("u32"), TVec(T("String")) >>))

load_profile(self, name) ==
    Operation("load_profile", check_protocol_version_profile_control(self), self.protocol, 0,
              RequestLoadProfile, Str(name), NoReply)

save_profile(self, name) ==
    Operation("save_profile", check_protocol_version_profile_control(self), self.protocol, 0,
              RequestSaveProfile, Str(name), NoReply)

delete_profile(self, name) ==
    Operation("delete_profile", check_protocol_version_profile_control(self), self.protocol, 0,
              RequestDeleteProfile, Str(name), NoReply)

\* a set_custom_mode that waits for the server to answer
set_custom_mode_requesting(self, controller_id) ==
    Operation("set_custom_mode", Unchecked, self.protocol, controller_id,
              RGBControllerSetCustomMode, Unit, T("u32"))

set_custom_mode(self, controller_id) ==
    Operation("set_custom_mode", Unchecked, self.protocol, controller_id,
              RGBControllerSetCustomMode, Unit, NoReply)

\* an update_mode that encodes with the client's highest version
update_mode_default_protocol(self, controller_id, mode_id, mode) ==
    Operation("update_mode", Unchecked, DEFAULT_PROTOCOL, controller_id, RGBControllerUpdateMode,
              Tuple(<< USize(size(I32(mode_id), DEFAULT_PROTOCOL) + size(mode, DEFAULT_PROTOCOL)),
                       I32(mode_id), mode >>), NoReply)

update_mode(self, controller_id, mode_id, mode) ==
    Operation("update_mode", Unchecked, self.protocol, controller_id, RGBControllerUpdateMode,
              Tuple(<< USize(size(I32(mode_id), self.protocol) + size(mode, self.protocol)),
                       I32(mode_id), mode >>), NoReply)

save_mode(self, controller_id, mode) ==
    Operation("save_mode", check_protocol_version_saving_modes(self), self.protocol,
              controller_id, RGBControllerSaveMode, mode, NoReply)

\* what the operation makes of the decoded reply
reply_value(r, val) == IF r.op = "get_profiles" THEN Vec(val.items[2].elems) ELSE val

----------------------------------------------------------------------------
(* Inputs: the arguments the tasks call the operations with, and the       *)
(* packets the server may send.                                            *)

Names == {<<116>>}
ControllerIds == {1}
Ids == {2}
ColorLists == {<< Color(1, 2, 3) >>}

Modes ==
    {[ty |-> "Mode", name |-> <<109>>, value |-> 1, flags |-> HasSpeed + HasBrightness,
      speed_min |-> Some(1), speed_max |-> Some(3),
      brightness_min |-> Some(4), brightness_max |-> Some(6),
      colors_min |-> None, colors_max |-> None,
      speed |-> Some(2), brightness |-> Some(5), direction |-> None,
      color_mode |-> Some(ColorModeNone), colors |-> <<>>]}

Calls(self) ==
    {set_name(self, n) : n \in Names}
    \cup {get_controller_count(self)}
    \cup {get_controller(self, c) : c \in ControllerIds}
    \cup {resize_zone(self, z, n) : z \in Ids, n \in Ids}
    \cup {update_led(self, c, l, k[1]) : c \in ControllerIds, l \in Ids, k \in ColorLists}
    \cup {update_leds(self, c, Vec(k)) : c \in ControllerIds, k \in ColorLists}
    \cup {update_leds(self, c, VecOf(Color(1, 2, 3), 65535 + 1)) : c \in ControllerIds}
    \cup {update_zone_leds(self, c, z, k) : c \in ControllerIds, z \in Ids, k \in ColorLists}
    \cup {get_profiles(self)}
    \cup {load_profile(self, n) : n \in Names}
    \cup {save_profile(self, n) : n \in Names}
    \cup {delete_profile(self, n) : n \in Names}
    \cup {set_custom_mode(self, c) : c \in ControllerIds}
    \cup {update_mode(self, c, i, m) : c \in ControllerIds, i \in Ids, m \in Modes}
    \cup {save_mode(self, c, m) : c \in ControllerIds, m \in Modes}

\* the calls made while another operation is on the connection: one of each
\* kind (no reply, reply, behind the gate at 2, behind the gate at 3)
ConcurrentCalls(self) ==
    {set_name(self, n) : n \in Names}
    \cup {get_controller_count(self)}
    \cup {get_profiles(self)}
    \cup {save_mode(self, c, m) : c \in ControllerIds, m \in Modes}

ServerVersions == 0..4

\* a controller with one mode, as a server speaking the given version sends it
ControllerData(version) ==
    LET body == LE32(5)
                \o Concat([i \in 1..6 |-> String_write(<<96 + i>>).bytes])
                \o LE16(1) \o I32LE(0)
                \o Concat([i \in 1..1 |-> Mode_write(CHOOSE m \in Modes : TRUE, version).bytes])
                \o LE16(0) \o LE16(0) \o LE16(1) \o <<7, 8, 9, 0>>
    IN LE32(Len(body) + 4) \o body

ProfileList == LE32(6) \o LE16(1) \o String_write(<<112>>).bytes

UnknownPacketId == 7

\* The server's stream is any sequence of bytes.  It is produced segment by
\* segment, each segment when a read waits for it: the value the request
\* calls for, or one that makes the read take its other branch, alone or
\* with more of the stream behind it.
ServerMagic(i) == {<<MAGIC[i]>>, <<88>>, <<88, 82>>}
ServerDeviceIds(r) == {LE32(r.device_id), LE32(r.device_id + 1)}
ServerPacketIds(r) ==
    {LE32(r.packet_id), LE32(DeviceListUpdated) \o <<82>>, LE32(UnknownPacketId)}
ServerLengths == {LE32(0), LE32(4)}
ServerPayloads(r) ==
    CASE r.op = "new" -> {LE32(v) : v \in ServerVersions}
      [] r.op = "get_controller_count" -> {LE32(2), LE32(2) \o <<79>>}
      [] r.op = "get_controller" -> {ControllerData(v) : v \in 2..3}
      [] r.op = "get_profiles" -> {ProfileList}

----------------------------------------------------------------------------
(* The state machine.                                                      *)

Constructor == 0                    \* the caller of OpenRGB::new, which owns the stream
Tasks == 1..NumTasks        \* the tasks sharing the constructed client
Procs == {Constructor} \cup Tasks
Unlocked == -1

HeaderSteps == << "write", "w_dev", "w_pkt", "w_len" >>
WriteSteps == {"write", "w_dev", "w_pkt", "w_len", "w_data"}
ReadSteps == {"r_magic", "r_dev", "r_pkt", "r_len", "r_data"}

Index(seq, x) == CHOOSE i \in 1..Len(seq) : seq[i] = x

\* record an access to the connection by the process that makes it
Touch(id, dir) ==
    IF trace # <<>> /\ trace[Len(trace)] = [id |-> id, dir |-> dir]
    THEN trace
    ELSE Append(trace, [id |-> id, dir |-> dir])

\* no returned operation is waiting for its caller to take the result
Settled == \A u \in Tasks : pc[u] # "done"

\* the bytes the read step task t is at takes, when they are all there
StepRead(t) ==
    CASE pc[t] = "r_magic" -> u8_read(inbound)
      [] pc[t] \in {"r_dev", "r_len"} -> u32_read(inbound)
      [] pc[t] = "r_pkt" -> PacketId_read(inbound)
      [] pc[t] = "r_data" -> read_value(req[t].reply, inbound, req[t].protocol)

\* a read is pending: the bytes at hand end before the value it reads
Starved(t) == pc[t] \in ReadSteps /\ StepRead(t).st = "more"

\* the moments at which a call is taken: the connection is free and nobody
\* waits for it, or its holder waits for the server
Quiet ==
    IF guard = Unlocked
    THEN \A u \in Tasks : pc[u] # "lock"
    ELSE Starved(guard)

\* no value is in the codec while a client runs
NoCodec == [stage |-> "none"]

Init ==
    /\ codec = NoCodec
    /\ debug_assertions \in BOOLEAN
    /\ client = NoClient
    /\ guard = Unlocked
    /\ pc = [t \in Procs |-> IF t = Constructor THEN "write" ELSE "idle"]
    /\ req = [t \in Procs |-> new]
    /\ out = [t \in Procs |-> <<>>]
    /\ got = [t \in Procs |-> <<>>]
    /\ result = [t \in Procs |-> NoResult]
    /\ inbound = <<>>
    /\ trace = <<>>
    /\ failed = {}

\* a constructor that adopts the server's version as it is
OpenRGB_new_unclamped(res) ==
    IF res.ok THEN OpenRGB(res.val.u32) ELSE NoClient

\* OpenRGB::new on the outcome of its request: the client, or no client on an error
OpenRGB_new(res) ==
    IF res.ok THEN OpenRGB(Min(DEFAULT_PROTOCOL, res.val.u32)) ELSE NoClient

\* the operation of task t returns res; the temporary MutexGuard is dropped
Return(t, res) ==
    /\ pc' = [pc EXCEPT ![t] = "done"]
    /\ result' = [result EXCEPT ![t] = res]
    /\ guard' = IF t = Constructor THEN guard ELSE Unlocked
    /\ client' = IF t = Constructor THEN OpenRGB_new(res) ELSE client

\* a task calls an operation of the client; the tasks are interchangeable,
\* so the idle task of lowest number takes the call.  A call touches nothing
\* but the caller's own state, so a call made at any other moment is
\* represented by the same call taken at the next Quiet one.
Call(t) ==
    /\ Settled
    /\ Quiet
    /\ t \in Tasks
    /\ client.ok
    /\ pc[t] = "idle"
    /\ \A u \in Tasks : u < t => pc[u] # "idle"
    /\ \E r \in (IF guard = Unlocked THEN Calls(client) ELSE ConcurrentCalls(client)) :
        /\ req' = [req EXCEPT ![t] = r]
        /\ IF r.check.ok
           THEN /\ pc' = [pc EXCEPT ![t] = "lock"]
                /\ result' = [result EXCEPT ![t] = NoResult]
           ELSE /\ pc' = [pc EXCEPT ![t] = "done"]
                /\ result' = [result EXCEPT ![t] = r.check]
    /\ out' = [out EXCEPT ![t] = <<>>]
    /\ got' = [got EXCEPT ![t] = <<>>]
    /\ UNCHANGED <<codec, debug_assertions, client, guard, inbound, trace, failed>>

\* the caller of a returned operation has its result and drops the future;
\* this touches nothing shared and is taken before any other step (Settled)
Finished(t) ==
    /\ t \in Tasks
    /\ pc[t] = "done"
    /\ pc' = [pc EXCEPT ![t] = "idle"]
    /\ req' = [req EXCEPT ![t] = new]
    /\ out' = [out EXCEPT ![t] = <<>>]
    /\ got' = [got EXCEPT ![t] = <<>>]
    /\ result' = [result EXCEPT ![t] = NoResult]
    /\ trace' = SelectSeq(trace, LAMBDA e : e.id # t)
    /\ failed' = failed \ {t}
    /\ UNCHANGED <<codec, debug_assertions, client, guard, inbound>>

\* a lock() that does not wait for the holder
Acquire_unguarded(t) ==
    /\ Settled
    /\ t \in Tasks
    /\ pc[t] = "lock"
    /\ guard' = t
    /\ pc' = [pc EXCEPT ![t] = "write"]
    /\ UNCHANGED <<codec, debug_assertions, client, req, out, got, result, inbound, trace,
                   failed>>

\* self.stream.lock().await
Acquire(t) ==
    /\ Settled
    /\ t \in Tasks
    /\ pc[t] = "lock"
    /\ guard = Unlocked
    /\ guard' = t
    /\ pc' = [pc EXCEPT ![t] = "write"]
    /\ UNCHANGED <<codec, debug_assertions, client, req, out, got, result, inbound, trace,
                   failed>>

\* a request that reads the reply's payload without its header
AfterWrite_headerless(t) ==
    IF req[t].reply = NoReply
    THEN Return(t, Ok(Unit))
    ELSE /\ pc' = [pc EXCEPT ![t] = "r_data"]
         /\ UNCHANGED <<result, guard, client>>

\* after write_packet: request goes on to read_packet, the other operations return
AfterWrite(t) ==
    IF req[t].reply = NoReply
    THEN Return(t, Ok(Unit))
    ELSE /\ pc' = [pc EXCEPT ![t] = "r_magic"]
         /\ UNCHANGED <<result, guard, client>>

\* what the write step task t is at puts on the connection
StepWrite(t) ==
    LET r == req[t] IN
    IF debug_assertions
    THEN write_packet_buf(r.protocol, r.device_id, r.packet_id, r.data)
    ELSE IF pc[t] = "w_data"
         THEN write_value(r.data, r.protocol)
         ELSE write_header(r.protocol, r.device_id, r.packet_id,
                           size(r.data, r.protocol))[Index(HeaderSteps, pc[t])]

\* debug build of write_packet: fill the buffer, then one write_all
WritePacketDebug(t) ==
    /\ Settled
    /\ pc[t] = "write"
    /\ debug_assertions
    /\ LET buf == StepWrite(t) IN
       IF buf.err # None
       THEN /\ Return(t, Err(buf.err[1]))
            /\ UNCHANGED <<out, trace>>
       ELSE /\ out' = [out EXCEPT ![t] = @ \o buf.bytes]
            /\ trace' = Touch(t, "w")
            /\ AfterWrite(t)
    /\ UNCHANGED <<codec, debug_assertions, req, got, inbound, failed>>

\* release build of write_packet: one write of write_header
WriteHeaderField(t) ==
    /\ Settled
    /\ pc[t] \in {"write", "w_dev", "w_pkt", "w_len"}
    /\ ~debug_assertions
    /\ LET w == StepWrite(t) IN
       IF w.err # None
       THEN /\ Return(t, Err(w.err[1]))
            /\ UNCHANGED <<out, trace>>
       ELSE /\ out' = [out EXCEPT ![t] = @ \o w.bytes]
            /\ trace' = Touch(t, "w")
            /\ pc' = [pc EXCEPT ![t] =
                        IF pc[t] = "w_len" THEN "w_data"
                        ELSE HeaderSteps[Index(HeaderSteps, pc[t]) + 1]]
            /\ UNCHANGED <<result, guard, client>>
    /\ UNCHANGED <<codec, debug_assertions, req, got, inbound, failed>>

\* release build of write_packet: the payload
WritePayload(t) ==
    /\ Settled
    /\ pc[t] = "w_data"
    /\ ~debug_assertions
    /\ LET w == StepWrite(t) IN
       /\ out' = [out EXCEPT ![t] = @ \o w.bytes]
       /\ trace' = IF w.bytes = <<>> THEN trace ELSE Touch(t, "w")
       /\ IF w.err # None THEN Return(t, Err(w.err[1])) ELSE AfterWrite(t)
    /\ UNCHANGED <<codec, debug_assertions, req, got, inbound, failed>>

\* take n bytes off the server's stream for the operation of task t
Consume(t, n) ==
    /\ got' = [got EXCEPT ![t] = @ \o Take(inbound, n)]
    /\ inbound' = Drop(inbound, n)
    /\ trace' = IF n = 0 THEN trace ELSE Touch(t, "r")

\* a read_header that compares the magic once all four bytes are in
ReadMagic_whole(t) ==
    /\ Settled
    /\ pc[t] = "r_magic"
    /\ LET i == Len(got[t]) + 1
           b == u8_read(inbound)
       IN /\ b.st = "ok"
          /\ Consume(t, b.n)
          /\ IF i = Len(MAGIC) /\ got[t] \o <<b.val.u8>> # MAGIC
             THEN Return(t, Err(ProtocolError("expected OpenRGB magic value, got", <<MAGIC[i]>>)))
             ELSE /\ pc' = [pc EXCEPT ![t] = IF i = Len(MAGIC) THEN "r_dev" ELSE "r_magic"]
                  /\ UNCHANGED <<result, guard, client>>
    /\ UNCHANGED <<codec, debug_assertions, req, out, failed>>

\* read_header: one pass of the loop over MAGIC
ReadMagic(t) ==
    /\ Settled
    /\ pc[t] = "r_magic"
    /\ LET i == Len(got[t]) + 1
           b == u8_read(inbound)
       IN /\ b.st = "ok"
          /\ Consume(t, b.n)
          /\ IF b.val.u8 # MAGIC[i]
             THEN Return(t, Err(ProtocolError("expected OpenRGB magic value, got", <<MAGIC[i]>>)))
             ELSE /\ pc' = [pc EXCEPT ![t] = IF i = Len(MAGIC) THEN "r_dev" ELSE "r_magic"]
                  /\ UNCHANGED <<result, guard, client>>
    /\ UNCHANGED <<codec, debug_assertions, req, out, failed>>

\* a read_header that takes the device id as it comes
ReadDeviceId_unchecked(t) ==
    /\ Settled
    /\ pc[t] = "r_dev"
    /\ LET device_id == u32_read(inbound) IN
          /\ device_id.st = "ok"
          /\ Consume(t, device_id.n)
          /\ pc' = [pc EXCEPT ![t] = "r_pkt"]
          /\ UNCHANGED <<result, guard, client>>
    /\ UNCHANGED <<codec, debug_assertions, req, out, failed>>

\* read_header: the device id
ReadDeviceId(t) ==
    /\ Settled
    /\ pc[t] = "r_dev"
    /\ LET device_id == u32_read(inbound) IN
          /\ device_id.st = "ok"
          /\ Consume(t, device_id.n)
          /\ IF device_id.val.u32 # req[t].device_id
             THEN Return(t, Err(ProtocolError("expected device ID",
                                              <<req[t].device_id, device_id.val.u32>>)))
             ELSE /\ pc' = [pc EXCEPT ![t] = "r_pkt"]
                  /\ UNCHANGED <<result, guard, client>>
    /\ UNCHANGED <<codec, debug_assertions, req, out, failed>>

\* a read_header that, on a packet id it did not expect, drops what the server
\* has sent so far
ReadPacketId_draining(t) ==
    /\ Settled
    /\ pc[t] = "r_pkt"
    /\ LET packet_id == PacketId_read(inbound)
           mismatch == packet_id.st = "err" \/ packet_id.val.id # req[t].packet_id
       IN /\ packet_id.st # "more"
          /\ got' = [got EXCEPT ![t] = @ \o Take(inbound, packet_id.n)]
          /\ inbound' = IF mismatch THEN <<>> ELSE Drop(inbound, packet_id.n)
          /\ trace' = Touch(t, "r")
          /\ IF packet_id.st = "err"
             THEN Return(t, Err(packet_id.err))
             ELSE IF mismatch
             THEN Return(t, Err(ProtocolError("expected packet ID",
                                              <<req[t].packet_id, packet_id.val.id>>)))
             ELSE /\ pc' = [pc EXCEPT ![t] = "r_len"]
                  /\ UNCHANGED <<result, guard, client>>
    /\ UNCHANGED <<codec, debug_assertions, req, out, failed>>

\* read_header: the packet id
ReadPacketId(t) ==
    /\ Settled
    /\ pc[t] = "r_pkt"
    /\ LET packet_id == PacketId_read(inbound) IN
          /\ packet_id.st # "more"
          /\ Consume(t, packet_id.n)
          /\ IF packet_id.st = "err"
             THEN Return(t, Err(packet_id.err))
             ELSE IF packet_id.val.id # req[t].packet_id
             THEN Return(t, Err(ProtocolError("expected packet ID",
                                              <<req[t].packet_id, packet_id.val.id>>)))
             ELSE /\ pc' = [pc EXCEPT ![t] = "r_len"]
                  /\ UNCHANGED <<result, guard, client>>
    /\ UNCHANGED <<codec, debug_assertions, req, out, failed>>

\* read_header: the payload length, which read_packet drops
ReadLength(t) ==
    /\ Settled
    /\ pc[t] = "r_len"
    /\ LET len == u32_read(inbound) IN
          /\ len.st = "ok"
          /\ Consume(t, len.n)
          /\ pc' = [pc EXCEPT ![t] = "r_data"]
          /\ UNCHANGED <<result, guard, client>>
    /\ UNCHANGED <<codec, debug_assertions, req, out, failed>>

\* a read_packet that empties the stream once the payload is decoded
ReadPayload_draining(t) ==
    /\ Settled
    /\ pc[t] = "r_data"
    /\ LET data == read_value(req[t].reply, inbound, req[t].protocol) IN
          /\ data.st # "more"
          /\ got' = [got EXCEPT ![t] = @ \o Take(inbound, data.n)]
          /\ inbound' = <<>>
          /\ trace' = IF data.n = 0 THEN trace ELSE Touch(t, "r")
          /\ IF data.st = "err"
             THEN Return(t, Err(data.err))
             ELSE Return(t, Ok(reply_value(req[t], data.val)))
    /\ UNCHANGED <<codec, debug_assertions, req, out, failed>>

\* read_packet: the payload, decoded as the type the operation expects
ReadPayload(t) ==
    /\ Settled
    /\ pc[t] = "r_data"
    /\ LET data == read_value(req[t].reply, inbound, req[t].protocol) IN
          /\ data.st # "more"
          /\ Consume(t, data.n)
          /\ IF data.st = "err"
             THEN Return(t, Err(data.err))
             ELSE Return(t, Ok(reply_value(req[t], data.val)))
    /\ UNCHANGED <<codec, debug_assertions, req, out, failed>>

\* a failed write that is tried again
WriteFault_retried(t) ==
    /\ Settled
    /\ pc[t] \in WriteSteps
    /\ pc[t] = "write" \/ ~debug_assertions
    /\ LET w == StepWrite(t) IN
       /\ ~(debug_assertions /\ w.err # None)
       /\ \E k \in 0..Min(MaxPartial, Len(w.bytes) - 1) :
            /\ out' = [out EXCEPT ![t] = @ \o Take(w.bytes, k)]
            /\ trace' = IF k = 0 THEN trace ELSE Touch(t, "w")
    /\ failed' = failed \cup {t}
    /\ UNCHANGED <<codec, debug_assertions, client, guard, pc, result, req, got, inbound>>

\* a write on the connection fails with an I/O error after k bytes went out
WriteFault(t) ==
    /\ Settled
    /\ pc[t] \in WriteSteps
    /\ pc[t] = "write" \/ ~debug_assertions
    /\ LET w == StepWrite(t) IN
       /\ ~(debug_assertions /\ w.err # None)
       /\ \E k \in 0..Min(MaxPartial, Len(w.bytes) - 1) :
            /\ out' = [out EXCEPT ![t] = @ \o Take(w.bytes, k)]
            /\ trace' = IF k = 0 THEN trace ELSE Touch(t, "w")
    /\ Return(t, Err(CommunicationError))
    /\ failed' = failed \cup {t}
    /\ UNCHANGED <<codec, debug_assertions, req, got, inbound>>

\* a pending read fails with an I/O error (the connection breaks before the
\* rest of the value arrives); read_exact has taken the bytes that were there
ReadFault(t) ==
    /\ Settled
    /\ Starved(t)
    /\ Consume(t, Len(inbound))
    /\ Return(t, Err(CommunicationError))
    /\ failed' = failed \cup {t}
    /\ UNCHANGED <<codec, debug_assertions, req, out>>

\* the first byte of a packet the server sends unasked
ServerAnswer == <<MAGIC[1]>>

Segments(t) ==
    CASE pc[t] = "r_magic" -> ServerMagic(Min(Len(got[t]) + 1, Len(MAGIC)))
      [] pc[t] = "r_dev" -> ServerDeviceIds(req[t])
      [] pc[t] = "r_pkt" -> ServerPacketIds(req[t])
      [] pc[t] = "r_len" -> ServerLengths
      [] pc[t] = "r_data" -> ServerPayloads(req[t])

\* the server sends the segment a pending read waits for, or answers a packet
\* of an operation that has returned without reading
ServerSend ==
    /\ Len(inbound) < Window
    /\ \/ /\ Settled
          /\ \E t \in Procs :
                /\ Starved(t)
                /\ \E seg \in Segments(t) : inbound' = inbound \o seg
       \/ \E t \in Tasks :
            /\ pc[t] = "done"
            /\ req[t].reply = NoReply
            /\ result[t] = Ok(Unit)
            /\ inbound' = inbound \o ServerAnswer
    /\ UNCHANGED <<codec, debug_assertions, client, guard, pc, req, out, got, result, trace,
                   failed>>

Next ==
    \/ \E t \in Tasks : Call(t)
    \/ \E t \in Tasks : Finished(t)
    \/ \E t \in Tasks : Acquire(t)
    \/ \E t \in Procs : WritePacketDebug(t)
    \/ \E t \in Procs : WriteHeaderField(t)
    \/ \E t \in Procs : WritePayload(t)
    \/ \E t \in Procs : WriteFault(t)
    \/ \E t \in Procs : ReadMagic(t)
    \/ \E t \in Procs : ReadDeviceId(t)
    \/ \E t \in Procs : ReadPacketId(t)
    \/ \E t \in Procs : ReadLength(t)
    \/ \E t \in Procs : ReadPayload(t)
    \/ \E t \in Procs : ReadFault(t)
    \/ ServerSend

Spec == Init /\ [][Next]_vars

----------------------------------------------------------------------------
(* The codec on its own.  stream.write_value(v, protocol) puts a value on  *)
(* a stream and stream.read_value::<T>(protocol) takes one off it; here    *)
(* one value, or one run of bytes, goes through them apart from any        *)
(* client.                                                                 *)

CodecProtocols == 0..(DEFAULT_PROTOCOL + 1)

\* the Rust type of a primitive, an enumeration or a tuple of them
RECURSIVE TypeOf(_)
TypeOf(v) ==
    IF v.ty = "tuple" THEN TTuple([i \in 1..Len(v.items) |-> TypeOf(v.items[i])])
    ELSE T(v.ty)

\* values to write and read back, each with its type
CodecValues ==
    LET Enum(name, n) == [ty |-> name, id |-> n]
        \* values of the fixed-size types
        Scalars ==
            {Unit}
            \cup {U8(n) : n \in {0, 1, 255}}
            \cup {U16(n) : n \in {0, 258, 65535}}
            \cup {U32(n) : n \in {0, 16909060, 2147483647}}
            \cup {I32(n) : n \in {0, 16909060, -1, -16909060, 2147483647, -2147483647 - 1}}
            \cup {Color(r, g, b) : r \in {0, 255}, g \in {1, 128}, b \in {2}}
            \cup {Enum("DeviceType", n) : n \in 0..DeviceTypeUnknown}
            \cup {Enum("ZoneType", n) : n \in 0..2}
            \cup {Enum("ColorMode", n) : n \in 0..3}
            \cup {Enum("Direction", n) : n \in 0..5}
            \cup {Enum("PacketId", n) : n \in PacketId}
            \cup {[ty |-> "ModeFlags", bits |-> n] : n \in 0..1023}
        \* tuples of two to four components
        Components ==
            {Unit, U8(255), U16(258), I32(-2), Color(1, 2, 3), Enum("Direction", 5)}
        Tuples == {Tuple(es) : es \in UNION {[1..n -> Components] : n \in 2..4}}
        \* modes: no flag, one flag, one direction bit, all three, all five; the
        \* optional fields filled or not whatever the flags are; the filled slots
        \* all differ
        ModeFlagSets ==
            {0, HasSpeed, HasBrightness, HasDirectionLR,
             HasDirectionLR + HasDirectionUD + HasDirectionHV,
             HasSpeed + HasDirectionLR + HasDirectionUD + HasDirectionHV + HasBrightness}
        Opt(present, v) == IF present THEN Some(v) ELSE None
        Colors == {[i \in 1..n |-> Color(i, 128, 255)] : n \in 0..MaxLen}
        CodecModes ==
            {[ty |-> "Mode", name |-> n, value |-> -2, flags |-> f,
              speed_min |-> Opt(s, 1), speed_max |-> Opt(s, 3), speed |-> Opt(sp, 2),
              brightness_min |-> Opt(b, 4), brightness_max |-> Opt(b, 6),
              brightness |-> Opt(br, 5),
              colors_min |-> Opt(c, 7), colors_max |-> Opt(c, 8),
              direction |-> Opt(d, 5), color_mode |-> Opt(cm, 2), colors |-> cs] :
                n \in Names, f \in ModeFlagSets, s \in BOOLEAN, sp \in BOOLEAN,
                b \in BOOLEAN, br \in BOOLEAN, c \in BOOLEAN, d \in BOOLEAN,
                cm \in BOOLEAN, cs \in Colors}
        \* sequences of up to MaxLen elements, and one of a length no u16 holds
        Vecs ==
            {<<TVec(T("u8")), Vec(es)>> :
                es \in UNION {[1..n -> {U8(37), U8(54)}] : n \in 0..MaxLen}}
            \cup {<<TVec(T("Color")), Vec(cs)>> : cs \in Colors}
            \cup {<<TVec(T("u8")), VecOf(U8(0), 65535 + 1)>>}
        \* the strings of up to MaxLen bytes over NUL, "t" and the two bytes of U+00E9
        Texts ==
            {bs \in UNION {[1..n -> {0, 116, 195, 169}] : n \in 0..MaxLen} : from_utf8_ok(bs)}
    IN {<<TypeOf(v), v>> : v \in Scalars \cup Tuples}
       \cup {<<T("Mode"), m>> : m \in CodecModes}
       \cup Vecs
       \cup {<<T("String"), Str(bs)>> : bs \in Texts}
       \* a string one byte too long for its length to go in two bytes
       \cup {<<T("String"), StrOf(116, 65535)>>}
       \cup {<<T("RawString"), RawString(bs)>> : bs \in Texts}

\* bytes to read, each with the type to read them as
CodecWires ==
    LET \* a mode as a server lays it out, with the brightness slots or without:
        \* every flag set of interest and one that is none, the direction and the
        \* color mode in range and out of it, the other slots all different
        ModeWireOf(value, flags, brightness, direction, color_mode, ncolors) ==
            <<2, 0, 116, 0>> \o I32LE(value) \o LE32(flags) \o LE32(1) \o LE32(3)
            \o (IF brightness THEN LE32(4) \o LE32(6) ELSE <<>>)
            \o LE32(7) \o LE32(8) \o LE32(2)
            \o (IF brightness THEN LE32(5) ELSE <<>>)
            \o LE32(direction) \o LE32(color_mode)
            \o LE16(ncolors) \o Concat([i \in 1..ncolors |-> <<i, 64, 127, 0>>])
        ModeWire(flags, brightness, direction, color_mode, ncolors) ==
            ModeWireOf(-2, flags, brightness, direction, color_mode, ncolors)
        ModeWires ==
            {ModeWire(f, b, d, cm, n) :
                f \in {0, HasSpeed, HasBrightness, HasSpeed + HasBrightness, HasDirectionLR,
                       HasDirectionLR + HasDirectionUD, HasDirectionUD + HasDirectionHV,
                       HasDirectionLR + HasDirectionUD + HasDirectionHV,
                       HasSpeed + HasDirectionLR + HasDirectionUD + HasDirectionHV
                       + HasBrightness,
                       1024},
                b \in BOOLEAN, d \in {DirectionLeft, 5, 6}, cm \in {ColorModeNone, 3, 4},
                n \in 0..MaxLen}
        \* a count and the bytes after it: as many as the count, fewer, more
        VecWires ==
            {LE16(n) \o bs :
                n \in 0..MaxLen, bs \in UNION {[1..k -> {37, 54}] : k \in 0..(MaxLen + 1)}}
        \* a length and the bytes after it: terminated or not, UTF-8 or not
        \* a zone as a server lays it out: a matrix section length that is zero,
        \* that is the byte count of the section, and that is neither; a height, a
        \* width, and cells numbered in the order sent: as many as the matrix
        \* holds, fewer, more
        ZoneWire(matrix_len, rest) ==
            <<2, 0, 116, 0>> \o LE32(1) \o LE32(3) \o LE32(18) \o LE32(15)
            \o LE16(matrix_len) \o rest
        ZoneWires ==
            {ZoneWire(0, <<>>)}
            \cup {ZoneWire(l, LE32(h) \o LE32(w) \o Concat([i \in 1..k |-> LE32(i - 1)])) :
                    l \in {0, 1, 32, 65535}, h \in 0..2, w \in 0..3, k \in 0..7}
        \* a controller as a server lays it out: a declared size that is right or
        \* not, a known device type or not, six strings all different, modes that
        \* differ in their value and flags, zones, LEDs and colors each with a count of its own
        ControllerWire(data_size, type, num_modes, brightness, nz, nl, nc) ==
            LE32(data_size) \o LE32(type)
            \o <<2, 0, 110, 0>> \o <<2, 0, 118, 0>> \o <<2, 0, 100, 0>>
            \o <<2, 0, 114, 0>> \o <<2, 0, 115, 0>> \o <<2, 0, 108, 0>>
            \o LE16(num_modes) \o I32LE(1)
            \o Concat([i \in 1..num_modes |->
                    ModeWireOf(i, IF i = 1 THEN HasSpeed ELSE HasBrightness, brightness,
                               DirectionLeft, ColorModeNone, 0)])
            \o LE16(nz) \o Concat([i \in 1..nz |-> ZoneWire(0, <<>>)])
            \o LE16(nl) \o Concat([i \in 1..nl |-> <<2, 0, 116, 0>> \o LE32(9)])
            \o LE16(nc) \o Concat([i \in 1..nc |-> <<i, 64, 127, 0>>])
        ControllerWires ==
            {ControllerWire(s, t, m, b, nz, nl, nc) :
                s \in {0, 760}, t \in {3, 15}, m \in 0..2, b \in BOOLEAN,
                nz \in 0..1, nl \in 0..1, nc \in 0..1}
        StringWires ==
            {LE16(n) \o bs :
                n \in 0..(MaxLen + 1),
                bs \in UNION {[1..k -> {0, 116, 195, 169}] : k \in 0..(MaxLen + 1)}}
    IN {<<T("Mode"), w>> : w \in ModeWires}
       \cup {<<TVec(T("u8")), w>> : w \in VecWires}
       \cup {<<T("String"), w>> : w \in StringWires}
       \cup {<<T("Zone"), w>> : w \in ZoneWires}
       \cup {<<T("Controller"), w>> : w \in ControllerWires}
       \cup {<<T("ModeFlags"), LE32(n)>> :
                n \in {0, 154, 1023, 1024, 1024 + 154, 2048, 65536 + 1, 2^30}}
       \* an enumeration: every ordinal of every enumeration, and numbers that are
       \* the ordinal of none
       \cup {<<T(e), LE32(n)>> :
                e \in {"PacketId", "ZoneType", "ColorMode", "Direction", "DeviceType"},
                n \in (0..16) \cup PacketId \cup {41, 1103, 65536, 2^30}}

CodecInit ==
    /\ \/ \E c \in CodecValues, p \in CodecProtocols :
            codec = [stage |-> "value", ty |-> c[1], val |-> c[2], protocol |-> p]
       \/ \E c \in CodecWires, p \in CodecProtocols :
            codec = [stage |-> "wire", ty |-> c[1], bytes |-> c[2], protocol |-> p]
    /\ debug_assertions = TRUE
    /\ client = NoClient
    /\ guard = Unlocked
    /\ pc = [t \in Procs |-> "idle"]
    /\ req = [t \in Procs |-> new]
    /\ out = [t \in Procs |-> <<>>]
    /\ got = [t \in Procs |-> <<>>]
    /\ result = [t \in Procs |-> NoResult]
    /\ inbound = <<>>
    /\ trace = <<>>
    /\ failed = {}

CodecIdle == UNCHANGED <<debug_assertions, client, guard, pc, req, out, got, result,
                         inbound, trace, failed>>

\* stream.write_value(val, protocol), and val.size(protocol) beside it
Encode ==
    /\ codec.stage = "value"
    /\ codec' = [stage |-> "written", ty |-> codec.ty, val |-> codec.val,
                 protocol |-> codec.protocol,
                 size |-> size(codec.val, codec.protocol),
                 wrote |-> write_value(codec.val, codec.protocol)]
    /\ CodecIdle

\* stream.read_value::<ty>(protocol) on the bytes a successful write left;
\* RawString is written only
Decode ==
    /\ codec.stage = "written"
    /\ codec.ty.t # "RawString"
    /\ codec.wrote.err = None
    /\ codec' = [stage |-> "decoded", ty |-> codec.ty, val |-> codec.val,
                 protocol |-> codec.protocol, size |-> codec.size, wrote |-> codec.wrote,
                 read |-> read_value(codec.ty, codec.wrote.bytes, codec.protocol)]
    /\ CodecIdle

\* stream.read_value::<ty>(protocol) on bytes a server sent
Read ==
    /\ codec.stage = "wire"
    /\ codec' = [stage |-> "read", ty |-> codec.ty, bytes |-> codec.bytes,
                 protocol |-> codec.protocol,
                 read |-> read_value(codec.ty, codec.bytes, codec.protocol)]
    /\ CodecIdle

CodecNext ==
    \/ Encode
    \/ Decode
    \/ Read

CodecSpec == CodecInit /\ [][CodecNext]_vars

----------------------------------------------------------------------------
(* Properties.                                                             *)

\* the u32 at byte i of bs, read off the wire independently of the codec
U32At(bs, i) == bs[i] + 256 * bs[i + 1] + 65536 * bs[i + 2] + 16777216 * bs[i + 3]

InFlight(t) == pc[t] \in WriteSteps \cup ReadSteps

\* write_packet has returned Ok for the operation of t
Wrote(t) == pc[t] \in ReadSteps \/ (pc[t] = "done" /\ (result[t].ok \/ got[t] # <<>>))

ProfileOps == {"get_profiles", "load_profile", "save_profile", "delete_profile"}

\* C1: once OpenRGB::new has succeeded, get_protocol_version() is the
\* smaller of 3 and the version v in the server's handshake reply, whatever
\* v is (0 and versions above 3 included).
C1_NegotiatedIsMin ==
    /\ (pc[Constructor] = "done" /\ result[Constructor].ok) =>
          /\ client.ok
          /\ Len(got[Constructor]) = 20
          /\ LET v == U32At(got[Constructor], 17) IN
             get_protocol_version(client) = IF v < 3 THEN v ELSE 3
    /\ client.ok => (pc[Constructor] = "done" /\ result[Constructor].ok)

C1_Witness ==
    /\ client.ok
    /\ U32At(got[Constructor], 17) = 4
    /\ get_protocol_version(client) = 3

\* C2: an operation behind a version gate that the negotiated version does
\* not pass (the four profile operations below 2, save_mode below 3) has
\* returned UnsupportedOperation with the operation's name, the negotiated
\* version and the minimum, never having waited for or held the lock and
\* never having written or read a byte.
C2_GateBeforeLock ==
    \A t \in Tasks :
        LET r == req[t]
            gated == \/ r.op \in ProfileOps /\ client.protocol < 2
                     \/ r.op = "save_mode" /\ client.protocol < 3
        IN (client.ok /\ gated) =>
              /\ pc[t] = "done"
              /\ result[t] = Err(UnsupportedOperation(
                                   IF r.op = "save_mode" THEN "Saving modes"
                                                         ELSE "Profile control",
                                   client.protocol,
                                   IF r.op = "save_mode" THEN 3 ELSE 2))
              /\ out[t] = <<>>
              /\ got[t] = <<>>
              /\ guard # t
              /\ \A i \in DOMAIN trace : trace[i].id # t

C2_Witness ==
    \E t \in Tasks :
        /\ req[t].op = "load_profile"
        /\ client.protocol = 1
        /\ pc[t] = "done"
        /\ ~result[t].ok

\* C3: an operation is on the connection only while it holds the lock, so
\* at most one is; the accesses of one operation to the connection are not
\* interleaved with another's, and a reply is read by the operation whose
\* request was the last thing written.
C3_OneOperationOnConnection ==
    /\ \A t \in Tasks : InFlight(t) => guard = t
    /\ \A t \in Tasks : \A u \in Tasks : (InFlight(t) /\ InFlight(u)) => t = u
    /\ \A t \in Tasks : (out[t] # <<>> /\ pc[t] # "done") => guard = t
    /\ \A i \in DOMAIN trace : \A j \in DOMAIN trace :
          (i < j /\ trace[i].id = trace[j].id) =>
              /\ \A k \in i..j : trace[k].id = trace[i].id
              /\ trace[i].dir = "r" => trace[j].dir = "r"
    /\ \A i \in DOMAIN trace :
          trace[i].dir = "r" => (i > 1 /\ trace[i - 1] = [id |-> trace[i].id, dir |-> "w"])

C3_Witness ==
    \E t \in Tasks : \E u \in Tasks :
        /\ pc[t] = "r_data"
        /\ pc[u] = "lock"
        /\ guard = t

\* C4: request() writes the one complete packet of the request before it
\* reads anything; it returns Ok only with a reply whose header carries the
\* request's device id and packet id, and the value is the reply's payload
\* decoded as the expected type; when the write fails, no byte is read.
C4_RequestWritesThenReads ==
    \A t \in Procs :
        LET r == req[t]
            packet == write_packet_buf(r.protocol, r.device_id, r.packet_id, r.data).bytes
        IN r.reply # NoReply =>
              /\ (pc[t] \in ReadSteps \/ got[t] # <<>>) => out[t] = packet
              /\ (pc[t] = "done" /\ out[t] # packet) => got[t] = <<>>
              /\ (pc[t] = "done" /\ result[t].ok) =>
                    /\ Len(got[t]) >= 16
                    /\ Take(got[t], 4) = MAGIC
                    /\ U32At(got[t], 5) = r.device_id
                    /\ U32At(got[t], 9) = r.packet_id
                    /\ LET data == read_value(r.reply, Drop(got[t], 16), r.protocol) IN
                          /\ data.st = "ok"
                          /\ data.n = Len(got[t]) - 16
                          /\ result[t].val = reply_value(r, data.val)

C4_Witness ==
    \E t \in Tasks :
        /\ req[t].op = "get_controller"
        /\ pc[t] = "done"
        /\ result[t].ok
        /\ Len(got[t]) > 16

\* C5: a packet write_packet has emitted is the four bytes 'O','R','G','B',
\* the device id, the packet id's number and the payload length, each four
\* bytes little-endian, and then the payload; the length field is the
\* payload's size() under the protocol version in use.
C5_PacketLayout ==
    \A t \in Procs :
        Wrote(t) =>
            LET r == req[t]
                payload == write_value(r.data, r.protocol)
            IN /\ Len(out[t]) >= 16
               /\ Take(out[t], 4) = <<79, 82, 71, 66>>
               /\ U32At(out[t], 5) = r.device_id
               /\ U32At(out[t], 9) = r.packet_id
               /\ U32At(out[t], 13) = size(r.data, r.protocol)
               /\ payload.err = None
               /\ Drop(out[t], 16) = payload.bytes
               /\ r.op = "set_name" =>
                     out[t] = <<79, 82, 71, 66, 0, 0, 0, 0, 50, 0, 0, 0, 2, 0, 0, 0, 116, 0>>

C5_Witness ==
    \E t \in Tasks :
        /\ req[t].op = "update_mode"
        /\ pc[t] = "done"
        /\ result[t].ok
        /\ Len(out[t]) > 16

\* C6: read_header takes the magic one byte at a time; at the first byte
\* that differs from 'O','R','G','B' the operation has returned a
\* ProtocolError, having consumed nothing after that byte.
C6_MagicByteByByte ==
    \A t \in Procs :
        \A i \in 1..Min(Len(MAGIC), Len(got[t])) :
            got[t][i] # MAGIC[i] =>
                /\ Len(got[t]) = i
                /\ pc[t] = "done"
                /\ ~result[t].ok
                /\ result[t].err.type = "ProtocolError"

C6_Witness ==
    \E t \in Tasks :
        /\ Len(got[t]) = 3
        /\ got[t][3] # MAGIC[3]
        /\ pc[t] = "done"
        /\ inbound # <<>>

\* C7: after a valid magic, a device id other than the expected one, or a
\* packet id other than the expected one, has made the operation return a
\* ProtocolError naming the expected and the actual value, with the length
\* field and the payload unread; a number that is no known packet id has
\* made it return a ProtocolError as well.
C7_HeaderIdMismatch ==
    \A t \in Procs :
        LET r == req[t]
            g == got[t]
        IN /\ (Len(g) >= 8 /\ U32At(g, 5) # r.device_id) =>
                 /\ Len(g) = 8
                 /\ pc[t] = "done"
                 /\ result[t] = Err(ProtocolError("expected device ID",
                                                  <<r.device_id, U32At(g, 5)>>))
           /\ (Len(g) >= 12 /\ U32At(g, 9) # r.packet_id) =>
                 /\ Len(g) = 12
                 /\ pc[t] = "done"
                 /\ result[t] =
                        IF U32At(g, 9) \in PacketId
                        THEN Err(ProtocolError("expected packet ID",
                                               <<r.packet_id, U32At(g, 9)>>))
                        ELSE Err(ProtocolError("unknown packed ID", <<U32At(g, 9)>>))

C7_Witness ==
    \E t \in Tasks :
        /\ Len(got[t]) = 12
        /\ Take(got[t], 4) = MAGIC
        /\ U32At(got[t], 9) = DeviceListUpdated
        /\ pc[t] = "done"
        /\ inbound # <<>>

\* C8: the client's negotiated version never changes once the client
\* exists, and every operation of the client encodes what it writes and
\* decodes what it reads with exactly that version.
C8_VersionFixed ==
    /\ [][client.ok => client' = client]_vars
    /\ [](\A t \in Tasks :
            LET r == req[t] IN
            pc[t] # "idle" =>
                /\ r.protocol = get_protocol_version(client)
                /\ Wrote(t) =>
                      /\ Drop(out[t], 16) = write_value(r.data, client.protocol).bytes
                      /\ U32At(out[t], 13) = size(r.data, client.protocol)
                      /\ r.op = "get_controller" => U32At(out[t], 17) = client.protocol
                /\ (pc[t] = "done" /\ result[t].ok /\ r.reply # NoReply) =>
                      result[t].val =
                          reply_value(r, read_value(r.reply, Drop(got[t], 16),
                                                    client.protocol).val))

C8_Witness ==
    \E t \in Tasks :
        /\ client.ok
        /\ client.protocol = 2
        /\ req[t].op = "update_mode"
        /\ pc[t] = "done"
        /\ result[t].ok

\* C9: the first exchange on a connection is the handshake: a packet with
\* device id 0, packet id 40, length 4 and payload 3, encoded with version
\* 3, answered by a packet with device id 0 and packet id 40; nothing else
\* is written before that reply is read, and a handshake that fails leaves
\* no client.
C9_HandshakeFirst ==
    /\ trace # <<>> => trace[1] = [id |-> 0, dir |-> "w"]
    /\ req[Constructor].protocol = 3
    /\ Wrote(Constructor) =>
          out[Constructor] = <<79, 82, 71, 66, 0, 0, 0, 0, 40, 0, 0, 0, 4, 0, 0, 0, 3, 0, 0, 0>>
    /\ client.ok =>
          /\ pc[Constructor] = "done"
          /\ result[Constructor].ok
          /\ Len(got[Constructor]) = 20
          /\ Take(got[Constructor], 4) = MAGIC
          /\ U32At(got[Constructor], 5) = 0
          /\ U32At(got[Constructor], 9) = 40
    /\ ~client.ok => \A t \in Tasks : pc[t] = "idle" /\ out[t] = <<>> /\ got[t] = <<>>
    /\ (pc[Constructor] = "done" /\ ~result[Constructor].ok) => client = NoClient

C9_Witness ==
    /\ client.ok
    /\ \E t \in Tasks : out[t] # <<>>
    /\ trace[1] = [id |-> 0, dir |-> "w"]

\* C10: a write or read that fails with an I/O error makes exactly the
\* operation it belongs to return CommunicationError: that operation
\* writes nothing more (no retry, no reconnect), the other operations are
\* left as they are, and the lock is free again, so that an operation
\* waiting for it can take it.
C10_IoErrorFailsOneOperation ==
    /\ [][failed' \ failed # {} =>
            \E t \in failed' \ failed :
                LET r == req[t]
                    packet == write_packet_buf(r.protocol, r.device_id, r.packet_id,
                                               r.data).bytes
                IN /\ InFlight(t)
                   /\ pc'[t] = "done"
                   /\ result'[t] = Err(CommunicationError)
                   /\ IF pc[t] \in WriteSteps
                      THEN /\ Len(out'[t]) < Len(packet)
                           /\ out'[t] = Take(packet, Len(out'[t]))
                           /\ got'[t] = <<>>
                      ELSE out'[t] = packet
                   /\ \A u \in Procs \ {t} :
                         /\ pc'[u] = pc[u]
                         /\ result'[u] = result[u]
                         /\ out'[u] = out[u]
                         /\ got'[u] = got[u]
                   /\ t \in Tasks => (guard = t /\ guard' = Unlocked)
                   /\ t = Constructor => client' = NoClient]_vars
    /\ [](\A t \in Tasks :
            /\ (pc[t] = "done" /\ ~result[t].ok) => guard # t
            /\ (pc[t] = "lock" /\ Settled /\ \A u \in Tasks : ~InFlight(u)) =>
                  ENABLED Acquire(t))

C10_Witness ==
    \E t \in Tasks : \E u \in Tasks :
        /\ pc[t] = "done"
        /\ result[t] = Err(CommunicationError)
        /\ out[t] # <<>>
        /\ pc[u] = "lock"
        /\ guard = Unlocked

----------------------------------------------------------------------------
(* The codec.                                                              *)

Decoded(t) == codec.stage = "decoded" /\ codec.ty.t = t

\* the value came back, and the read took every byte the write put out
RoundTrip == codec.read = ReadOk(codec.val, Len(codec.wrote.bytes))

\* bit (a power of two) is set in n
FlagOn(n, bit) == (n \div bit) % 2 = 1

\* the optional fields of m are filled exactly where a read at this protocol fills them
PresenceFollowsFlags(m, protocol) ==
    /\ \A o \in {m.speed_min, m.speed_max, m.speed} : (o # None) = FlagOn(m.flags, 1)
    /\ \A o \in {m.brightness_min, m.brightness_max, m.brightness} :
            (o # None) = (FlagOn(m.flags, 16) /\ protocol >= 3)
    /\ \A o \in {m.colors_min, m.colors_max} : (o # None) = (m.colors # <<>>)
    /\ (m.direction # None) = (\A bit \in {2, 4, 8} : FlagOn(m.flags, bit))
    /\ m.color_mode # None

\* C11 as stated: every Mode, whatever its flags and whichever optional
\* fields are filled, comes back equal from a write followed by a read at
\* the same protocol version.
C11_EveryModeRoundTrips == Decoded("Mode") => RoundTrip

\* C11 amended: a Mode whose optional fields are filled exactly where a
\* read fills them (the speed fields with HasSpeed, the brightness fields
\* with HasBrightness at protocol 3 and above, colors_min and colors_max
\* with a non-empty color list, direction with all three direction bits,
\* color_mode always) comes back equal from a write followed by a read at
\* the same protocol version.
C11_ModeRoundTripsWhenPresenceFollowsFlags ==
    (Decoded("Mode") /\ PresenceFollowsFlags(codec.val, codec.protocol)) => RoundTrip

C11_Witness ==
    /\ Decoded("Mode")
    /\ PresenceFollowsFlags(codec.val, codec.protocol)
    /\ codec.val.speed # None
    /\ codec.val.brightness # None
    /\ codec.val.direction # None
    /\ codec.val.colors_min # None
    /\ codec.read.st = "ok"

\* the documented size of each fixed-size type, and the sum of them for a tuple
RECURSIVE StatedSize(_)
StatedSize(v) ==
    CASE v.ty = "unit" -> 0
      [] v.ty = "u8" -> 1
      [] v.ty = "u16" -> 2
      [] v.ty \in {"u32", "i32"} -> 4
      [] v.ty \in {"Color", "DeviceType", "ZoneType", "ColorMode", "Direction", "PacketId",
                   "ModeFlags"} -> 4
      [] v.ty = "tuple" -> Sum([i \in 1..Len(v.items) |-> StatedSize(v.items[i])])

FixedSize ==
    codec.ty.t \in {"unit", "u8", "u16", "u32", "i32", "Color", "DeviceType", "ZoneType",
                    "ColorMode", "Direction", "PacketId", "ModeFlags", "tuple"}

\* C12: a u8, u16, u32, i32, unit, Color, DeviceType, ZoneType, ColorMode,
\* Direction, PacketId, mode-flag set or 2- to 4-tuple of these is written
\* without error at every protocol version and read back equal; a tuple's
\* bytes are its components' bytes in declared order with nothing between
\* them; size is the sum of the component sizes (0 for unit, 4 for Color,
\* the enumerations and the flag set).
C12_FixedSizeRoundTrip ==
    /\ (codec.stage \in {"written", "decoded"} /\ FixedSize) =>
            /\ codec.wrote.err = None
            /\ codec.size = StatedSize(codec.val)
            /\ Len(codec.wrote.bytes) = codec.size
            /\ codec.ty.t = "tuple" =>
                    codec.wrote.bytes =
                        Concat([i \in 1..Len(codec.val.items) |->
                                    write_value(codec.val.items[i], codec.protocol).bytes])
    /\ (codec.stage = "decoded" /\ FixedSize) => RoundTrip

C12_Witness ==
    /\ Decoded("tuple")
    /\ Len(codec.val.items) = 4
    /\ codec.val.items[1] = I32(-2)
    /\ codec.val.items[2] = Unit
    /\ codec.val.items[3] = Color(1, 2, 3)
    /\ codec.read.st = "ok"
    /\ codec.size = 4 + 0 + 4 + 2

\* a Mode read off bytes a server sent
ModeRead == codec.stage = "read" /\ codec.ty.t = "Mode"

\* the k-th 4-byte slot after the name, read off the bytes independently of the codec
Slot(k) == U32At(codec.bytes, 2 + codec.bytes[1] + 256 * codec.bytes[2] + 4 * (k - 1) + 1)

\* the slots a read at this protocol skips: none, or the brightness slots ahead of slot k
Shift(k) == IF codec.protocol >= 3 THEN 0 ELSE IF k > 10 THEN 3 ELSE IF k > 6 THEN 2 ELSE 0

\* the slot in the place that slot k of the protocol 3 layout has at this protocol
SlotAs3(k) == Slot(k - Shift(k))

\* C13: a Mode read takes brightness_min, brightness_max and brightness
\* off the stream exactly at protocol 3 and above; the three fields are Some
\* of those slots exactly when the protocol is 3 or above and HasBrightness
\* is set, None otherwise; below protocol 3 every other field is read from
\* the same content laid out without the three slots.
C13_BrightnessSlotsFromProtocol3 ==
    (ModeRead /\ codec.read.st = "ok") =>
        LET m == codec.read.val
            b == codec.protocol >= 3
            shown == b /\ FlagOn(Slot(2), 16)
        IN /\ codec.read.n = 2 + Len(m.name) + 1 + 4 * (IF b THEN 12 ELSE 9)
                             + 2 + 4 * Len(m.colors)
           /\ m.brightness_min = IF shown THEN Some(Slot(5)) ELSE None
           /\ m.brightness_max = IF shown THEN Some(Slot(6)) ELSE None
           /\ m.brightness = IF shown THEN Some(Slot(10)) ELSE None
           /\ m.value = -2 /\ m.flags = SlotAs3(2)
           /\ m.speed_min \in {None, Some(SlotAs3(3))}
           /\ m.speed_max \in {None, Some(SlotAs3(4))}
           /\ m.colors_min \in {None, Some(SlotAs3(7))}
           /\ m.colors_max \in {None, Some(SlotAs3(8))}
           /\ m.speed \in {None, Some(SlotAs3(9))}
           /\ m.direction \in {None, Some(SlotAs3(11))}
           /\ m.color_mode = Some(SlotAs3(12))

C13_Witness ==
    /\ ModeRead
    /\ codec.protocol = 2
    /\ codec.read.st = "ok"
    /\ codec.read.n = Len(codec.bytes)
    /\ FlagOn(codec.read.val.flags, 16)
    /\ codec.read.val.brightness = None
    /\ codec.read.val.speed = Some(2)
    /\ codec.read.val.colors_max = Some(8)

\* the bytes at hand reach the end of the k-th slot after the name
HasSlot(k) == Len(codec.bytes) >= 2 + codec.bytes[1] + 256 * codec.bytes[2] + 4 * k

\* C14: a Mode read takes the speed_min, speed_max, colors_min, colors_max,
\* speed, direction and color_mode slots off the stream whatever the flags
\* are; the speed fields are Some of their slots exactly when HasSpeed is
\* set; colors_min and colors_max are Some of theirs exactly when the colors
\* read are not empty; color_mode is always Some, and a color-mode integer
\* that names no ColorMode fails the read with a ProtocolError.
C14_SlotsAlwaysConsumed ==
    /\ (ModeRead /\ codec.read.st = "ok") =>
            LET m == codec.read.val
                has_speed == FlagOn(m.flags, 1)
            IN /\ codec.read.n - 4 * Len(m.colors) - (IF codec.protocol >= 3 THEN 12 ELSE 0)
                    = 2 + Len(m.name) + 1 + 4 + 4 + 7 * 4 + 2
               /\ m.speed_min = IF has_speed THEN Some(SlotAs3(3)) ELSE None
               /\ m.speed_max = IF has_speed THEN Some(SlotAs3(4)) ELSE None
               /\ m.speed = IF has_speed THEN Some(SlotAs3(9)) ELSE None
               /\ m.colors_min = IF m.colors # <<>> THEN Some(SlotAs3(7)) ELSE None
               /\ m.colors_max = IF m.colors # <<>> THEN Some(SlotAs3(8)) ELSE None
               /\ m.color_mode # None
               /\ m.color_mode[1] = SlotAs3(12)
               /\ m.color_mode[1] \in 0..3
    /\ (ModeRead /\ HasSlot(12 - Shift(12)) /\ SlotAs3(2) < 1024 /\ SlotAs3(12) \notin 0..3) =>
            /\ codec.read.st = "err"
            /\ codec.read.err.type = "ProtocolError"

C14_Witness ==
    /\ ModeRead
    /\ codec.read.st = "ok"
    /\ codec.read.n = Len(codec.bytes)
    /\ codec.read.val.flags = 0
    /\ codec.read.val.speed = None
    /\ codec.read.val.colors # <<>>
    /\ codec.read.val.colors_min = Some(7)
    /\ codec.read.val.color_mode = Some(3)

\* ModeFlag::HasDirection, the three direction bits together, is in the flag set n
HasDirectionIn(n) == \A bit \in {2, 4, 8} : FlagOn(n, bit)

\* C15: a Mode read yields direction = Some(d) exactly when the decoded
\* flags hold HasDirection, and then the direction integer is one of
\* 0..5: any other fails the read with a ProtocolError.  Without the flag
\* direction is None, and the direction integer is taken off the stream
\* and accepted whatever it is.
C15_DirectionFollowsFlag ==
    /\ (ModeRead /\ codec.read.st = "ok") =>
            LET m == codec.read.val
            IN /\ m.direction = IF HasDirectionIn(m.flags) THEN Some(SlotAs3(11)) ELSE None
               /\ HasDirectionIn(m.flags) => SlotAs3(11) \in 0..5
    /\ (ModeRead /\ codec.read.st # "more" /\ SlotAs3(2) < 1024 /\ SlotAs3(12) \in 0..3) =>
            IF HasDirectionIn(SlotAs3(2)) /\ SlotAs3(11) \notin 0..5
            THEN codec.read.st = "err" /\ codec.read.err.type = "ProtocolError"
            ELSE codec.read.st = "ok"

C15_Witness ==
    /\ ModeRead
    /\ codec.read.st = "ok"
    /\ codec.read.n = Len(codec.bytes)
    /\ ~HasDirectionIn(codec.read.val.flags)
    /\ SlotAs3(11) = 6
    /\ codec.read.val.direction = None

\* a Mode written, whether or not it was read back
ModeWritten == codec.stage \in {"written", "decoded"} /\ codec.ty.t = "Mode"

\* the k-th 4-byte slot after the name in the bytes written, counted as at protocol 3
WrittenAs3(k) ==
    U32At(codec.wrote.bytes, 2 + Len(codec.val.name) + 1 + 4 * (k - Shift(k) - 1) + 1)

OrZero(o) == IF o = None THEN 0 ELSE o[1]

\* C16: writing a Mode puts every slot on the stream in the order a read
\* takes them, whatever the flags are: the name, the value, the flags, then
\* each optional field as its value, or as 0 when it is None (Left = 0 for
\* the direction, None = 0 for the color mode), then the colors; the three
\* brightness slots are written exactly at protocol 3 and above.
C16_EverySlotWritten ==
    ModeWritten =>
        LET m == codec.val
            bs == codec.wrote.bytes
            b == codec.protocol >= 3
            named == 2 + Len(m.name) + 1
            slots == IF b THEN 12 ELSE 9
        IN /\ codec.wrote.err = None
           /\ Len(bs) = named + 4 * slots + 2 + 4 * Len(m.colors)
           /\ bs[1] + 256 * bs[2] = Len(m.name) + 1
           /\ SubSeq(bs, 3, named) = m.name \o <<0>>
           /\ SubSeq(bs, named + 1, named + 4) = <<254, 255, 255, 255>>
           /\ WrittenAs3(2) = m.flags
           /\ WrittenAs3(3) = OrZero(m.speed_min)
           /\ WrittenAs3(4) = OrZero(m.speed_max)
           /\ b => WrittenAs3(5) = OrZero(m.brightness_min)
           /\ b => WrittenAs3(6) = OrZero(m.brightness_max)
           /\ WrittenAs3(7) = OrZero(m.colors_min)
           /\ WrittenAs3(8) = OrZero(m.colors_max)
           /\ WrittenAs3(9) = OrZero(m.speed)
           /\ b => WrittenAs3(10) = OrZero(m.brightness)
           /\ WrittenAs3(11) = OrZero(m.direction)
           /\ WrittenAs3(12) = OrZero(m.color_mode)
           /\ bs[named + 4 * slots + 1] + 256 * bs[named + 4 * slots + 2] = Len(m.colors)
           /\ \A i \in 1..Len(m.colors) :
                SubSeq(bs, named + 4 * slots + 2 + 4 * i - 3, named + 4 * slots + 2 + 4 * i)
                    = <<m.colors[i].r, m.colors[i].g, m.colors[i].b, 0>>

C16_Witness ==
    /\ ModeWritten
    /\ codec.protocol = 3
    /\ codec.val.flags = 0
    /\ codec.val.speed = Some(2)
    /\ codec.val.brightness = Some(5)
    /\ codec.val.direction = None
    /\ codec.val.colors # <<>>
    /\ WrittenAs3(9) = 2
    /\ WrittenAs3(10) = 5
    /\ WrittenAs3(11) = 0

\* C17: writing a sequence of more than 65535 elements fails with a
\* ProtocolError and puts nothing on the stream: no count, truncated,
\* wrapped or other, and no element.
C17_TooLongSequenceWritesNothing ==
    (codec.stage = "written" /\ codec.val.ty = "vec!" /\ codec.val.n > 65535) =>
        /\ codec.wrote.err # None
        /\ codec.wrote.err[1].type = "ProtocolError"
        /\ codec.wrote.bytes = <<>>

C17_Witness ==
    /\ codec.stage = "written"
    /\ codec.val = VecOf(U8(0), 65536)
    /\ codec.wrote.err # None
    /\ codec.size = 2 + 65536

\* C18: writing a sequence of n <= 65535 elements puts the count n on the
\* stream as two bytes, low byte first, and then the encoding of each
\* element in order; reading takes the count and then exactly that many
\* elements, no more, and waits when fewer are there.
C18_CountThenElements ==
    /\ (codec.stage \in {"written", "decoded"} /\ codec.val.ty = "Vec") =>
            LET es == codec.val.elems
                bs == codec.wrote.bytes
            IN /\ codec.wrote.err = None
               /\ bs[1] + 256 * bs[2] = Len(es)
               /\ Drop(bs, 2) = Concat([i \in 1..Len(es) |->
                                            write_value(es[i], codec.protocol).bytes])
    /\ (codec.stage = "decoded" /\ codec.val.ty = "Vec") => RoundTrip
    /\ (codec.stage = "read" /\ codec.ty = TVec(T("u8"))) =>
            LET bs == codec.bytes
                n == bs[1] + 256 * bs[2]
            IN IF Len(bs) - 2 >= n
               THEN codec.read = ReadOk(Vec([i \in 1..n |-> U8(bs[2 + i])]), 2 + n)
               ELSE codec.read.st = "more"

C18_Witness ==
    /\ codec.stage = "read"
    /\ codec.ty = TVec(T("u8"))
    /\ codec.read.st = "ok"
    /\ codec.read.val = Vec(<<U8(37), U8(54)>>)
    /\ Len(codec.bytes) = 2 + 2 + 1

\* UTF-8 over the bytes 0, 116, 195 and 169: NUL, "t" and U+00E9 one after the other
RECURSIVE StatedUtf8(_)
StatedUtf8(bs) ==
    IF bs = <<>> THEN TRUE
    ELSE IF bs[1] < 128 THEN StatedUtf8(Tail(bs))
    ELSE Len(bs) >= 2 /\ bs[1] = 195 /\ bs[2] = 169 /\ StatedUtf8(Tail(Tail(bs)))

\* C19: a String of b bytes, b + 1 within two bytes, is written as the
\* length b + 1 in two bytes, low byte first, then the b bytes, then one
\* zero byte; a read takes the two-byte length L, then exactly L bytes,
\* drops the last of them and returns the others, or fails with a
\* ProtocolError when they are not UTF-8; a RawString is written as the b
\* bytes and one zero byte, with no length, and has size b + 1.
C19_StringLayout ==
    /\ (codec.stage \in {"written", "decoded"} /\ codec.val.ty = "String") =>
            LET b == Len(codec.val.str)
            IN /\ codec.wrote.err = None
               /\ codec.wrote.bytes = <<(b + 1) % 256, (b + 1) \div 256>> \o codec.val.str \o <<0>>
    /\ (codec.stage = "decoded" /\ codec.val.ty = "String") => RoundTrip
    /\ (codec.stage = "written" /\ codec.ty.t = "RawString") =>
            /\ codec.wrote.err = None
            /\ codec.wrote.bytes = codec.val.raw \o <<0>>
            /\ codec.size = Len(codec.val.raw) + 1
    /\ (codec.stage = "read" /\ codec.ty.t = "String") =>
            LET bs == codec.bytes
                l == bs[1] + 256 * bs[2]
                rest == SubSeq(bs, 3, 2 + l - 1)
            IN IF Len(bs) - 2 < l THEN codec.read.st = "more"
               ELSE IF StatedUtf8(rest) THEN codec.read = ReadOk(Str(rest), 2 + l)
               ELSE /\ codec.read.st = "err"
                    /\ codec.read.err.type = "ProtocolError"
                    /\ codec.read.n = 2 + l

C19_Witness ==
    /\ codec.stage = "read"
    /\ codec.ty.t = "String"
    /\ codec.bytes = <<2, 0, 116, 0, 116>>
    /\ codec.read = ReadOk(Str(<<116>>), 4)

\* the defined flags, by bit number, that the integer n holds
FlagsIn(n) == {i \in 0..9 : FlagOn(n, 2^i)}

\* C20: reading a mode-flag integer succeeds exactly when no bit above bit
\* 9 is set in it, and the set read then holds exactly the flags whose bits
\* the integer has (154: HasDirectionLR, HasDirectionHV, HasBrightness and
\* HasRandomColor, bits 1, 3, 4 and 7); with any other integer the read
\* fails with a ProtocolError.  Writing a set puts the OR of its members'
\* bits on the stream.
C20_FlagSetBits ==
    /\ (codec.stage = "read" /\ codec.ty.t = "ModeFlags") =>
            LET n == U32At(codec.bytes, 1)
            IN IF \A i \in 10..30 : ~FlagOn(n, 2^i)
               THEN /\ codec.read.st = "ok"
                    /\ codec.read.n = 4
                    /\ FlagsIn(codec.read.val.bits) = FlagsIn(n)
                    /\ codec.read.val.bits < 2^10
                    /\ n = 154 => FlagsIn(codec.read.val.bits) = {1, 3, 4, 7}
               ELSE /\ codec.read.st = "err"
                    /\ codec.read.err.type = "ProtocolError"
    /\ (codec.stage \in {"written", "decoded"} /\ codec.ty.t = "ModeFlags") =>
            /\ codec.wrote.err = None
            /\ Len(codec.wrote.bytes) = 4
            /\ U32At(codec.wrote.bytes, 1) = Sum([i \in 1..10 |->
                    IF i - 1 \in FlagsIn(codec.val.bits) THEN 2^(i - 1) ELSE 0])

C20_Witness ==
    /\ codec.stage = "read"
    /\ codec.ty.t = "ModeFlags"
    /\ codec.bytes = <<154, 0, 0, 0>>
    /\ codec.read.st = "ok"
    /\ HasBit(codec.read.val.bits, HasDirectionLR)
    /\ HasBit(codec.read.val.bits, HasDirectionHV)
    /\ HasBit(codec.read.val.bits, HasBrightness)
    /\ ~HasBit(codec.read.val.bits, HasSpeed)
    /\ ~HasBit(codec.read.val.bits, HasDirectionUD)

\* the ordinals of an enumeration, as its declaration lists them
OrdinalsOf(e) ==
    CASE e = "ZoneType" -> 0..2
      [] e = "ColorMode" -> 0..3
      [] e = "Direction" -> 0..5
      [] e = "DeviceType" -> 0..14
      [] e = "PacketId" -> {0, 1, 40, 50, 100, 150, 151, 152, 153,
                            1000, 1050, 1051, 1052, 1100, 1101, 1102}

EnumRead(e) == codec.stage = "read" /\ codec.ty.t = e

\* C21: a 4-byte integer that is the ordinal of a variant decodes to that variant
\* for ZoneType, ColorMode, Direction, PacketId and DeviceType; one that is the
\* ordinal of none fails with a ProtocolError for the first four and decodes to
\* Unknown for DeviceType.
C21_UnknownOrdinals ==
    \A e \in {"ZoneType", "ColorMode", "Direction", "PacketId", "DeviceType"} :
        EnumRead(e) =>
            LET n == U32At(codec.bytes, 1)
            IN IF n \in OrdinalsOf(e)
               THEN codec.read = ReadOk([ty |-> e, id |-> n], 4)
               ELSE IF e = "DeviceType"
               THEN codec.read = ReadOk([ty |-> e, id |-> DeviceTypeUnknown], 4)
               ELSE /\ codec.read.st = "err"
                    /\ codec.read.err.type = "ProtocolError"

C21_Witness ==
    /\ EnumRead("DeviceType")
    /\ codec.bytes = <<15, 0, 0, 0>>
    /\ codec.read.st = "ok"
    /\ codec.read.val.id = DeviceTypeUnknown

ZoneRead == codec.stage = "read" /\ codec.ty.t = "Zone"

\* where the fields of a zone with a 1-byte name lie on the stream
MatrixLenAt == Len(<<2, 0, 116, 0>>) + 4 * 4 + 1
MatrixAt == MatrixLenAt + 2
CellsAt == MatrixAt + 2 * 4

\* C22: a zone whose 2-byte matrix section length is 0 decodes with no matrix and
\* takes nothing after the length; with any other length the decoder reads a
\* height, a width and height * width 4-byte cells, whatever the length says, and
\* cell (r, c), counted from 0, is the (r * width + c)-th cell read.
C22_ZoneMatrix ==
    ZoneRead =>
        LET bs == codec.bytes
            matrix_len == bs[MatrixLenAt] + 256 * bs[MatrixLenAt + 1]
        IN IF matrix_len = 0
           THEN /\ codec.read.st = "ok"
                /\ codec.read.val.matrix = None
                /\ codec.read.n = MatrixAt - 1
           ELSE LET height == U32At(bs, MatrixAt)
                    width == U32At(bs, MatrixAt + 4)
                    last == CellsAt - 1 + 4 * height * width
                IN IF Len(bs) < last THEN codec.read = ReadPending
                   ELSE /\ codec.read.st = "ok"
                        /\ codec.read.n = last
                        /\ codec.read.val.matrix # None
                        /\ LET m == codec.read.val.matrix[1]
                           IN /\ m.rows = height
                              /\ m.columns = width
                              /\ \A r \in 0..(height - 1), c \in 0..(width - 1) :
                                    m.cells[r + 1][c + 1]
                                        = U32At(bs, CellsAt + 4 * (r * width + c))

C22_Witness ==
    /\ ZoneRead
    /\ codec.bytes[MatrixLenAt] = 1
    /\ U32At(codec.bytes, MatrixAt) = 2
    /\ U32At(codec.bytes, MatrixAt + 4) = 3
    /\ codec.read.st = "ok"
    /\ codec.read.val.matrix = Some([rows |-> 2, columns |-> 3,
                                     cells |-> <<<<0, 1, 2>>, <<3, 4, 5>>>>])

ControllerRead == codec.stage = "read" /\ codec.ty.t = "Controller"

\* two bytes of a stream as a number, 0 past its end
U16At(bs, i) == IF i + 1 <= Len(bs) THEN bs[i] + 256 * bs[i + 1] ELSE 0

\* where the fields of a controller lie on the stream when its strings are 1 byte
\* long, its modes have no colors, its zones have a 1-byte name and no matrix and
\* its LEDs a 1-byte name: after k strings the mode count, the active mode and
\* the modes; then the zones, the LEDs and the colors, each after its count
StringAt(j) == 4 + 4 + 4 * (j - 1) + 1
NumModesAt(k) == StringAt(k + 1)
ModesAt(k) == NumModesAt(k) + 2 + 4
ModeLen(protocol) == 4 + 4 + 4 + 4 * (IF protocol >= 3 THEN 8 ELSE 5) + 4 + 4 + 2
ZoneLen == MatrixAt - 1
LEDLen == 4 + 4
ZonesAt(bs, protocol) == ModesAt(6) + U16At(bs, NumModesAt(6)) * ModeLen(protocol)
LEDsAt(bs, protocol) ==
    ZonesAt(bs, protocol) + 2 + U16At(bs, ZonesAt(bs, protocol)) * ZoneLen
ColorsAt(bs, protocol) ==
    LEDsAt(bs, protocol) + 2 + U16At(bs, LEDsAt(bs, protocol)) * LEDLen
ControllerEnd(bs, protocol) ==
    ColorsAt(bs, protocol) + 2 + U16At(bs, ColorsAt(bs, protocol)) * 4 - 1

\* a controller laid out for the protocol version it is read with
ControllerSent ==
    /\ ControllerRead
    /\ Len(codec.bytes) = ControllerEnd(codec.bytes, codec.protocol)

\* C23 as stated: after the declared size and the device type the decoder takes
\* five strings, and the 2 bytes after the fifth are the mode count, the 4 after
\* them the active mode.
C23_FiveStrings ==
    ControllerSent =>
        /\ codec.read.st = "ok"
        /\ Len(codec.read.val.modes) = U16At(codec.bytes, NumModesAt(5))
        /\ codec.read.val.active_mode = U32At(codec.bytes, NumModesAt(5) + 2)

\* C23: the controller decoder takes, in this order, a 4-byte declared size that
\* it ignores, the device type, six strings (name, vendor, description, version,
\* serial, location), a 2-byte mode count, the active mode, as many modes as the
\* count says, then the zones, the LEDs and the colors, each after a 2-byte count
\* of its own.
C23_ControllerLayout ==
    ControllerSent =>
        LET bs == codec.bytes
            p == codec.protocol
            v == codec.read.val
            type == U32At(bs, 5)
        IN /\ codec.read.st = "ok"
           /\ codec.read.n = ControllerEnd(bs, p)
           /\ v.type = IF type <= DeviceTypeUnknown THEN type ELSE DeviceTypeUnknown
           /\ <<v.name, v.vendor, v.description, v.version, v.serial, v.location>>
                = [j \in 1..6 |-> <<bs[StringAt(j) + 2]>>]
           /\ Len(v.modes) = U16At(bs, NumModesAt(6))
           /\ v.active_mode = U32At(bs, NumModesAt(6) + 2)
           /\ \A i \in 1..Len(v.modes) :
                /\ v.modes[i].value = U32At(bs, ModesAt(6) + (i - 1) * ModeLen(p) + 4)
                /\ v.modes[i].flags = U32At(bs, ModesAt(6) + (i - 1) * ModeLen(p) + 4 + 4)
           /\ Len(v.zones) = U16At(bs, ZonesAt(bs, p))
           /\ \A i \in 1..Len(v.zones) :
                v.zones[i].leds_count
                    = U32At(bs, ZonesAt(bs, p) + 2 + (i - 1) * ZoneLen + ZoneLen - 2 - 4)
           /\ Len(v.leds) = U16At(bs, LEDsAt(bs, p))
           /\ \A i \in 1..Len(v.leds) :
                v.leds[i].value = U32At(bs, LEDsAt(bs, p) + 2 + (i - 1) * LEDLen + 4)
           /\ Len(v.colors) = U16At(bs, ColorsAt(bs, p))
           /\ \A i \in 1..Len(v.colors) :
                LET at == ColorsAt(bs, p) + 2 + (i - 1) * 4
                IN v.colors[i] = Color(bs[at], bs[at + 1], bs[at + 2])

C23_Witness ==
    /\ ControllerSent
    /\ U32At(codec.bytes, 1) = 760
    /\ codec.read.st = "ok"
    /\ codec.read.val.location = <<108>>
    /\ Len(codec.read.val.modes) = 2
    /\ Len(codec.read.val.zones) = 1
    /\ Len(codec.read.val.leds) = 1
    /\ Len(codec.read.val.colors) = 1

----------------------------------------------------------------------------
(* The client and the server's stream.                                     *)

\* the bytes task t takes in this step: what got[t] grows by
Taken(t) == Len(got'[t]) - Len(got[t])

\* task t reads in this step the next bytes of the stream, and leaves the rest
TakesNext(t) ==
    /\ Taken(t) \in 1..Len(inbound)
    /\ got'[t] = got[t] \o Take(inbound, Taken(t))
    /\ inbound' = Drop(inbound, Taken(t))

\* a read_packet that begins in this step begins with the first byte of the stream
StartsAtNext(t) ==
    (pc[t] = "r_magic" /\ got[t] = <<>> /\ got'[t] # <<>>) =>
        /\ inbound # <<>>
        /\ got'[t] = <<inbound[1]>>
        /\ inbound' = Tail(inbound)

\* a step in which no operation reads leaves on the stream what was on it
StreamKept ==
    (\A u \in Procs : got'[u] = got[u] \/ got'[u] = <<>>) =>
        /\ Len(inbound') >= Len(inbound)
        /\ Take(inbound', Len(inbound)) = inbound

\* read_packet returns in this step from the decoding of the payload
PayloadRead(t) == pc[t] = "r_data" /\ pc'[t] = "done" /\ t \notin failed'

ProtocolFailure(t) ==
    /\ pc[t] \in ReadSteps
    /\ pc'[t] = "done"
    /\ ~result'[t].ok
    /\ result'[t].err.type = "ProtocolError"

\* C25: a read that fails with a ProtocolError takes the bytes of the value it was
\* reading and nothing more; the client skips and discards nothing afterwards, is
\* as usable as before, with the lock free; the next operation that reads begins
\* at the byte after the last one the failed read took.
C25_NoResynchronization ==
    /\ [][\A t \in Procs :
            /\ ProtocolFailure(t) =>
                /\ TakesNext(t)
                /\ pc[t] = "r_magic" => Taken(t) = 1
                /\ pc[t] \in {"r_dev", "r_pkt"} => Taken(t) = 4
                /\ failed' = failed
                /\ t \in Tasks => (client' = client /\ client.ok /\ guard' = Unlocked)
                /\ \A u \in Procs \ {t} : pc'[u] = pc[u] /\ got'[u] = got[u]
            /\ StartsAtNext(t)
            /\ StreamKept]_vars
    /\ [](\A t \in Tasks :
            (pc[t] = "done" /\ ~result[t].ok /\ result[t].err.type = "ProtocolError") =>
                /\ client.ok
                /\ guard = Unlocked
                /\ ENABLED Finished(t))

C25_Witness ==
    \E t \in Tasks :
        /\ pc[t] = "done"
        /\ result[t] = Err(ProtocolError("expected packet ID",
                                         <<req[t].packet_id, DeviceListUpdated>>))
        /\ inbound = <<82>>
        /\ client.ok
        /\ guard = Unlocked

\* the operations that read from the connection
ReadingOps == {"new", "get_controller_count", "get_controller", "get_profiles"}

\* the operations that write a packet and return
WritingOps == {"set_name", "resize_zone", "update_led", "update_leds", "update_zone_leds",
               "load_profile", "save_profile", "delete_profile", "set_custom_mode",
               "update_mode", "save_mode"}

\* C29: the handshake, get_controller_count, get_controller and get_profiles are
\* the only operations that read from the connection.  Each of the other eleven
\* writes exactly one packet and takes no byte off the stream, so that what the
\* server sends in answer to one of them is still there, unread, when the next
\* request reads its response, and is the first thing that request reads.
C29_OnlyRequestsRead ==
    /\ [](\A t \in Procs :
            /\ req[t].op \in ReadingOps \cup WritingOps
            /\ (got[t] # <<>> \/ pc[t] \in ReadSteps) => req[t].op \in ReadingOps
            /\ (req[t].op \in WritingOps /\ pc[t] = "done" /\ result[t].ok) =>
                    /\ got[t] = <<>>
                    /\ Len(out[t]) >= 16
                    /\ Take(out[t], 4) = MAGIC
                    /\ Len(out[t]) = 16 + U32At(out[t], 13))
    /\ [][\A t \in Procs :
            /\ (req[t].op \in WritingOps /\ pc'[t] # pc[t] /\ pc[t] # "idle") =>
                    inbound' = inbound
            /\ StartsAtNext(t)
            /\ StreamKept]_vars

C29_Witness ==
    \E t \in Tasks :
        /\ pc[t] = "done"
        /\ req[t].op = "update_leds"
        /\ result[t] = Ok(Unit)
        /\ got[t] = <<>>
        /\ inbound = <<MAGIC[1]>>

\* a String too long for the two bytes of its length has been handed to write
LongStringWritten ==
    /\ codec.stage = "written"
    /\ codec.val.ty = "str!"
    /\ codec.val.n + 1 > 65535

\* C26: a String whose byte count plus one is above 65535 is not written with a
\* length that wrapped modulo 2^16: the write fails with a ProtocolError.
C26_LongStringRefused ==
    LongStringWritten =>
        /\ codec.wrote.err # None
        /\ codec.wrote.err[1].type = "ProtocolError"

\* a value has been written without error
WrittenOk == codec.stage \in {"written", "decoded"} /\ codec.wrote.err = None

\* C27: whenever a value is written without error at a protocol version, as many
\* bytes are written as size gives for the value at that version; a Mode counts
\* and writes its three brightness slots at the same versions, 3 and above; the
\* payload length in the header of a packet carrying the value is then the
\* number of bytes that follow the header.
C27_SizeIsBytesWritten ==
    WrittenOk =>
        /\ Len(codec.wrote.bytes) = codec.size
        /\ codec.ty.t = "Mode" =>
                codec.size = 2 + Len(codec.val.name) + 1
                             + 4 * (9 + IF codec.protocol >= 3 THEN 3 ELSE 0)
                             + 2 + 4 * Len(codec.val.colors)
        /\ LET packet == write_packet_buf(codec.protocol, 0, RGBControllerUpdateMode,
                                          codec.val)
           IN /\ packet.err = None
              /\ Len(packet.bytes) = 16 + U32At(packet.bytes, 13)
              /\ Drop(packet.bytes, 16) = codec.wrote.bytes

C27_Witness ==
    /\ WrittenOk
    /\ codec.ty.t = "Mode"
    /\ codec.protocol = 3
    /\ codec.val.brightness # None
    /\ codec.val.colors # <<>>
    /\ Len(codec.wrote.bytes) = codec.size

\* write_packet has failed for the operation of t with a ProtocolError: nothing
\* was read, and the version gate had let the operation through
EncodingFailed(t) ==
    /\ pc[t] = "done"
    /\ req[t].check.ok
    /\ got[t] = <<>>
    /\ ~result[t].ok
    /\ result[t].err.type = "ProtocolError"

\* C28: in the debug and in the release build alike, when write_packet fails with
\* a ProtocolError on the length in the header or on the payload, no byte of
\* the packet has gone out on the connection.
C28_NothingWrittenOnEncodingFailure ==
    \A t \in Procs : EncodingFailed(t) => out[t] = <<>>

\* the debug build alone: the packet is put together in a buffer, and a failure
\* in putting it together leaves the connection as it was
DebugNothingWrittenOnEncodingFailure ==
    debug_assertions => C28_NothingWrittenOnEncodingFailure

DebugEncodingFailure ==
    /\ debug_assertions
    /\ \E t \in Tasks : EncodingFailed(t)

\* the direction bits (LR, UD, HV) that the flags of the mode on the stream hold
DirectionBits == {bit \in {2, 4, 8} : FlagOn(SlotAs3(2), bit)}

\* C30: a Mode read has a direction only when its flags hold all three of
\* HasDirectionLR, HasDirectionUD and HasDirectionHV; with one or two of them the
\* read gives direction = None, and takes whatever stands in the direction slot.
C30_DirectionNeedsAllThreeBits ==
    /\ (ModeRead /\ codec.read.st = "ok") =>
            (codec.read.val.direction # None <=> Cardinality(DirectionBits) = 3)
    /\ (/\ ModeRead
        /\ codec.read.st # "more"
        /\ SlotAs3(2) < 1024
        /\ SlotAs3(12) \in 0..3
        /\ Cardinality(DirectionBits) \in 1..2) =>
            /\ codec.read.st = "ok"
            /\ codec.read.val.direction = None

C30_Witness ==
    /\ ModeRead
    /\ DirectionBits = {2, 4}
    /\ SlotAs3(11) = 6
    /\ codec.read.st = "ok"
    /\ codec.read.val.direction = None

=============================================================================
